---- MODULE Spec2Model ----
(***************************************************************************)
(* Verification model of deal_finder.py (healthcare-deals): price          *)
(* parsing and range filter, heuristic scoring, the page loop of the       *)
(* source adapters with its fetches, the dedup / junk / sort pass of       *)
(* run_all_searches, the parse of the rater's responses, the tiered        *)
(* report table with its rows and summary counts, the seen-deals file and  *)
(* the archive manifest over repeated runs of main().                      *)
(*                                                                         *)
(* Python strings are modelled as sequences of one-character strings so    *)
(* that upper(), lower(), replace(), strip(), re.sub() and the substring   *)
(* operator `in` are computed character by character, as the code does.    *)
(***************************************************************************)
EXTENDS Integers, Sequences, FiniteSets, TLC

\* ------------------------------------------------------------------------
\* Python values
\* ------------------------------------------------------------------------
\* Python's None (an absent Optional value).
None == [tag |-> "None"]
\* A returned int.
IntVal(n) == [tag |-> "int", val |-> n]
\* A returned bool.
BoolVal(b) == [tag |-> "bool", val |-> b]
\* An exception that leaves the function.
Raised(e) == [tag |-> "raise", exc |-> e]
\* None where the code holds an Optional[str]: strings are sequences of
\* one-character strings, so this one-element sequence is no string.
NoStr == <<"<None>">>

\* ------------------------------------------------------------------------
\* Character-level string helpers
\* ------------------------------------------------------------------------
Lowers == <<"a","b","c","d","e","f","g","h","i","j","k","l","m",
            "n","o","p","q","r","s","t","u","v","w","x","y","z">>
Uppers == <<"A","B","C","D","E","F","G","H","I","J","K","L","M",
            "N","O","P","Q","R","S","T","U","V","W","X","Y","Z">>
Digits == {"0","1","2","3","4","5","6","7","8","9"}
DigitVal(c) == CASE c = "0" -> 0 [] c = "1" -> 1 [] c = "2" -> 2 [] c = "3" -> 3
                 [] c = "4" -> 4 [] c = "5" -> 5 [] c = "6" -> 6 [] c = "7" -> 7
                 [] c = "8" -> 8 [] c = "9" -> 9

UpperChar(c) == IF \E i \in 1..26 : Lowers[i] = c
                THEN Uppers[CHOOSE i \in 1..26 : Lowers[i] = c] ELSE c
LowerChar(c) == IF \E i \in 1..26 : Uppers[i] = c
                THEN Lowers[CHOOSE i \in 1..26 : Uppers[i] = c] ELSE c
\* str.upper() / str.lower()
StrUpper(s) == [i \in 1..Len(s) |-> UpperChar(s[i])]
StrLower(s) == [i \in 1..Len(s) |-> LowerChar(s[i])]

\* str.replace(c, "") for a one-character c; re.sub(r'[^\d.]', '', s) is
\* KeepChars(s, Digits \cup {"."}).
RemoveChar(s, c) == SelectSeq(s, LAMBDA x : x # c)
KeepChars(s, set) == SelectSeq(s, LAMBDA x : x \in set)
\* c in s, for a one-character c
HasChar(s, c) == \E i \in 1..Len(s) : s[i] = c
\* sub in s (substring test)
Contains(s, sub) ==
    \E i \in 0..(Len(s) - Len(sub)) : SubSeq(s, i + 1, i + Len(sub)) = sub

\* str.strip(): whitespace is the blank (the only whitespace character the
\* modelled texts contain).
Strip(s) ==
    IF \A i \in 1..Len(s) : s[i] = " " THEN << >>
    ELSE LET a == CHOOSE i \in 1..Len(s) :
                      s[i] # " " /\ \A j \in 1..(i-1) : s[j] = " "
             b == CHOOSE i \in 1..Len(s) :
                      s[i] # " " /\ \A j \in (i+1)..Len(s) : s[j] = " "
         IN SubSeq(s, a, b)

\* ------------------------------------------------------------------------
\* float(): text -> IEEE-754 double, and double arithmetic
\*
\* A finite non-zero double is sign * m * 2^exp with m a 53-bit significand,
\* kept as the sequence of its bits, most significant first.  Conversions
\* and the product round to nearest, ties to even, as the hardware does.
\* Long bit strings are produced ten bits (one limb) at a time.
\* ------------------------------------------------------------------------
SigBits == 53
LimbBits == 10
LimbBase == 1024
\* limbs generated behind the binary point; 6 * 10 bits >= 53 + 1
FracLimbCount == 6

Pow2 == [i \in 0..30 |-> CASE i = 0 -> 1 [] i = 1 -> 2 [] i = 2 -> 4 [] i = 3 -> 8
           [] i = 4 -> 16 [] i = 5 -> 32 [] i = 6 -> 64 [] i = 7 -> 128 [] i = 8 -> 256
           [] i = 9 -> 512 [] i = 10 -> 1024 [] i = 11 -> 2048 [] i = 12 -> 4096
           [] i = 13 -> 8192 [] i = 14 -> 16384 [] i = 15 -> 32768 [] i = 16 -> 65536
           [] i = 17 -> 131072 [] i = 18 -> 262144 [] i = 19 -> 524288
           [] i = 20 -> 1048576 [] i = 21 -> 2097152 [] i = 22 -> 4194304
           [] i = 23 -> 8388608 [] i = 24 -> 16777216 [] i = 25 -> 33554432
           [] i = 26 -> 67108864 [] i = 27 -> 134217728 [] i = 28 -> 268435456
           [] i = 29 -> 536870912 [] i = 30 -> 1073741824]

Pow10 == [f \in 0..6 |-> CASE f = 0 -> 1 [] f = 1 -> 10 [] f = 2 -> 100 [] f = 3 -> 1000
            [] f = 4 -> 10000 [] f = 5 -> 100000 [] f = 6 -> 1000000]

RECURSIVE DigitsToNat(_)
DigitsToNat(ds) == IF ds = << >> THEN 0
                   ELSE 10 * DigitsToNat(SubSeq(ds, 1, Len(ds) - 1)) + DigitVal(ds[Len(ds)])

\* number of binary digits of n (0 for n = 0), n < 2^31
BitLen(n) == IF n = 0 THEN 0
             ELSE IF n >= Pow2[30] THEN 31
             ELSE CHOOSE L \in 1..30 : Pow2[L - 1] <= n /\ n < Pow2[L]

\* binary digits of n, most significant first
BitsOfNat(n) == [i \in 1..BitLen(n) |-> (n \div Pow2[BitLen(n) - i]) % 2]

\* the same, padded with leading zeros to w digits
BitsOfWidth(n, w) == [i \in 1..w |-> (n \div Pow2[w - i]) % 2]

\* value of a bit sequence of at most 10 digits
LimbOfBits(bs) ==
    LET b(i) == IF i <= Len(bs) THEN bs[Len(bs) + 1 - i] ELSE 0
    IN b(1) + 2 * b(2) + 4 * b(3) + 8 * b(4) + 16 * b(5) + 32 * b(6)
       + 64 * b(7) + 128 * b(8) + 256 * b(9) + 512 * b(10)

\* value of a bit sequence of at most 31 digits
NatOfBits(bs) ==
    LET n     == Len(bs)
        chunk(j) == \* j-th group of ten digits counted from the right
            LimbOfBits(SubSeq(bs, (IF n - 10 * j + 1 < 1 THEN 1 ELSE n - 10 * j + 1),
                                  n - 10 * (j - 1)))
    IN chunk(1) + (IF n > 10 THEN LimbBase * chunk(2) ELSE 0)
                + (IF n > 20 THEN LimbBase * LimbBase * chunk(3) ELSE 0)
                + (IF n > 30 THEN Pow2[30] * chunk(4) ELSE 0)

\* bits of a limb sequence (most significant limb first)
BitsOfLimbs(ls) ==
    [i \in 1..(LimbBits * Len(ls)) |->
        (ls[((i - 1) \div LimbBits) + 1] \div Pow2[LimbBits - 1 - ((i - 1) % LimbBits)]) % 2]

RECURSIVE FracLimbs(_, _, _, _)
\* the next cnt limbs of the binary expansion of r/D (0 <= r < D <= 10^6),
\* and the remainder left
FracLimbs(r, D, cnt, acc) ==
    IF cnt = 0 THEN [limbs |-> acc, rem |-> r]
    ELSE FracLimbs((r * LimbBase) % D, D, cnt - 1, Append(acc, (r * LimbBase) \div D))

\* number of zero binary digits of r/D (0 < r < D) before its first one
LeadingZeros(r, D) ==
    CHOOSE z \in 0..20 :
        /\ r >= (D + Pow2[z + 1] - 1) \div Pow2[z + 1]
        /\ \A y \in 0..(z - 1) : r < (D + Pow2[y + 1] - 1) \div Pow2[y + 1]

\* bs + 1 on a bit sequence that is not all ones
IncBits(bs) ==
    LET j == CHOOSE i \in 1..Len(bs) : bs[i] = 0 /\ \A h \in (i + 1)..Len(bs) : bs[h] = 1
    IN [i \in 1..Len(bs) |-> IF i < j THEN bs[i] ELSE IF i = j THEN 1 ELSE 0]

\* bs without its leading zeros (bs holds a one)
DropLeadingZeros(bs) ==
    LET j == CHOOSE i \in 1..Len(bs) : bs[i] = 1 /\ \A h \in 1..(i - 1) : bs[h] = 0
    IN SubSeq(bs, j, Len(bs))

\* Round the value bits * 2^exp (plus a non-zero tail when sticky) to a
\* 53-bit significand, to nearest, ties to even.  Len(bits) >= 53, bits[1] = 1.
RoundToDouble(sign, bits, exp, sticky) ==
    LET m     == SubSeq(bits, 1, SigBits)
        extra == Len(bits) - SigBits
        rb    == IF extra >= 1 THEN bits[SigBits + 1] ELSE 0
        tail  == sticky \/ \E i \in (SigBits + 2)..Len(bits) : bits[i] = 1
        up    == rb = 1 /\ (tail \/ m[SigBits] = 1)
    IN IF ~up THEN [kind |-> "finite", sign |-> sign, m |-> m, exp |-> exp + extra]
       ELSE IF \A i \in 1..SigBits : m[i] = 1
            THEN [kind |-> "finite", sign |-> sign,
                  m |-> [i \in 1..SigBits |-> IF i = 1 THEN 1 ELSE 0],
                  exp |-> exp + extra + 1]
            ELSE [kind |-> "finite", sign |-> sign, m |-> IncBits(m), exp |-> exp + extra]

\* The double nearest to sign * n / 10^f  (n < 2^31, f <= 6).
DecimalToDouble(sign, n, f) ==
    IF n = 0 THEN [kind |-> "zero", sign |-> sign]
    ELSE LET D  == Pow10[f]
             q  == n \div D
             r  == n % D
         IN IF q > 0
            THEN LET fr == FracLimbs(r, D, FracLimbCount, << >>)
                 IN RoundToDouble(sign, BitsOfNat(q) \o BitsOfLimbs(fr.limbs),
                                  -(LimbBits * FracLimbCount), fr.rem # 0)
            ELSE LET z  == LeadingZeros(r, D)
                     fr == FracLimbs(r * Pow2[z], D, FracLimbCount, << >>)
                 IN RoundToDouble(sign, BitsOfLimbs(fr.limbs),
                                  -(z + LimbBits * FracLimbCount), fr.rem # 0)

RECURSIVE MulLimbs(_, _, _)
\* limbs * k with k <= 10^6; limbs least significant first; returns the
\* product's limbs, least significant first, and the carry out of the top
MulLimbs(ls, k, carry) ==
    IF ls = << >> THEN [limbs |-> << >>, carry |-> carry]
    ELSE LET t    == ls[1] * k + carry
             rest == MulLimbs(Tail(ls), k, t \div LimbBase)
         IN [limbs |-> <<t % LimbBase>> \o rest.limbs, carry |-> rest.carry]

Reverse(s) == [i \in 1..Len(s) |-> s[Len(s) + 1 - i]]

\* x * k in double arithmetic, for a natural k <= 10^6
DoubleTimes(x, k) ==
    IF x.kind # "finite" THEN x
    ELSE LET padded == [i \in 1..7 |-> 0] \o x.m      \* 60 bits = 6 limbs
             limbs  == [j \in 1..6 |->
                          LimbOfBits(SubSeq(padded, LimbBits * (j - 1) + 1, LimbBits * j))]
             p      == MulLimbs(Reverse(limbs), k, 0)
             full   == DropLeadingZeros(BitsOfWidth(p.carry, 21)
                                        \o BitsOfLimbs(Reverse(p.limbs)))
         IN RoundToDouble(x.sign, full, x.exp, FALSE)

\* int(x): truncation toward zero of a finite double; OverflowError for an
\* infinity, ValueError for a NaN.
DoubleToInt(x) ==
    CASE x.kind = "zero" -> IntVal(0)
      [] x.kind = "inf"  -> Raised("OverflowError")
      [] x.kind = "nan"  -> Raised("ValueError")
      [] x.kind = "finite" ->
            LET keep == SigBits + x.exp
            IN IF keep <= 0 THEN IntVal(0)
               ELSE IntVal(x.sign * NatOfBits(SubSeq(x.m, 1, keep)))

\* float(s): s is stripped of surrounding blanks, then an optional sign,
\* then INF, INFINITY, NAN (any case) or decimal digits with at most one
\* point and at least one digit.  Anything else is a ValueError.  (Exponent
\* notation and digit-group underscores are not in the modelled alphabet.)
PyFloat(text) ==
    LET s    == Strip(text)
        neg  == Len(s) >= 1 /\ s[1] = "-"
        sgnd == Len(s) >= 1 /\ s[1] \in {"-", "+"}
        body == StrUpper(IF sgnd THEN Tail(s) ELSE s)
        sign == IF neg THEN -1 ELSE 1
        dots == Len(SelectSeq(body, LAMBDA c : c = "."))
        ds   == KeepChars(body, Digits)
    IN IF body \in {<<"I","N","F">>, <<"I","N","F","I","N","I","T","Y">>}
       THEN [kind |-> "inf", sign |-> sign]
       ELSE IF body = <<"N","A","N">> THEN [kind |-> "nan", sign |-> sign]
       ELSE IF /\ \A i \in 1..Len(body) : body[i] \in Digits \cup {"."}
               /\ dots <= 1
               /\ ds # << >>
            THEN LET p == IF dots = 0 THEN Len(body) + 1
                          ELSE CHOOSE i \in 1..Len(body) : body[i] = "."
                 IN DecimalToDouble(sign, DigitsToNat(ds), Len(body) - p + (IF dots = 0 THEN 1 ELSE 0))
            ELSE [kind |-> "invalid"]

\* ------------------------------------------------------------------------
\* Configuration (CONFIG["criteria"])
\* ------------------------------------------------------------------------
min_price == 1000000
max_price == 5000000
industries == <<
    <<"m","e","d","i","c","a","l"," ","p","r","a","c","t","i","c","e">>,
    <<"h","e","a","l","t","h","c","a","r","e">>,
    <<"h","o","m","e"," ","h","e","a","l","t","h">>,
    <<"h","o","m","e"," ","c","a","r","e">>,
    <<"s","e","n","i","o","r"," ","c","a","r","e">>,
    <<"h","o","s","p","i","c","e">>,
    <<"p","h","y","s","i","c","a","l"," ","t","h","e","r","a","p","y">>,
    <<"o","c","c","u","p","a","t","i","o","n","a","l"," ","t","h","e","r","a","p","y">>,
    <<"b","e","h","a","v","i","o","r","a","l"," ","h","e","a","l","t","h">>,
    <<"m","e","n","t","a","l"," ","h","e","a","l","t","h">>,
    <<"h","e","a","l","t","h","c","a","r","e"," ","s","t","a","f","f","i","n","g">>,
    <<"m","e","d","i","c","a","l"," ","b","i","l","l","i","n","g">>,
    <<"d","e","n","t","a","l"," ","p","r","a","c","t","i","c","e">>,
    <<"o","p","t","o","m","e","t","r","y">>,
    <<"d","e","r","m","a","t","o","l","o","g","y">>,
    <<"u","r","g","e","n","t"," ","c","a","r","e">>,
    <<"c","l","i","n","i","c">>,
    <<"n","u","r","s","i","n","g">>,
    <<"a","s","s","i","s","t","e","d"," ","l","i","v","i","n","g">>,
    <<"p","h","a","r","m","a","c","y">>,
    <<"p","s","y","c","h","i","a","t","r","y">>,
    <<"p","s","y","c","h","o","l","o","g","y">>,
    <<"c","o","u","n","s","e","l","i","n","g">>,
    <<"t","h","e","r","a","p","y">>,
    <<"A","B","A">>,
    <<"s","u","b","s","t","a","n","c","e"," ","a","b","u","s","e">>,
    <<"a","d","d","i","c","t","i","o","n"," ","t","r","e","a","t","m","e","n","t">>,
    <<"r","e","h","a","b","i","l","i","t","a","t","i","o","n">> >>
locations == <<
    <<"C","a","l","i","f","o","r","n","i","a">>,
    <<"C","A">>,
    <<"K","e","n","t","u","c","k","y">>,
    <<"K","Y">>,
    <<"r","e","m","o","t","e">>,
    <<"a","n","y","w","h","e","r","e">> >>
keywords_positive == <<
    <<"a","b","s","e","n","t","e","e">>,
    <<"s","e","m","i","-","a","b","s","e","n","t","e","e">>,
    <<"m","a","n","a","g","e","r"," ","i","n"," ","p","l","a","c","e">>,
    <<"m","a","n","a","g","e","m","e","n","t"," ","i","n"," ","p","l","a","c","e">>,
    <<"p","a","s","s","i","v","e">>,
    <<"t","u","r","n","k","e","y">>,
    <<"e","s","t","a","b","l","i","s","h","e","d">>,
    <<"s","t","a","b","l","e">>,
    <<"r","e","c","u","r","r","i","n","g"," ","r","e","v","e","n","u","e">>,
    <<"S","B","A">>,
    <<"S","B","A"," ","e","l","i","g","i","b","l","e">>,
    <<"S","B","A"," ","q","u","a","l","i","f","i","e","d">>,
    <<"c","a","s","h"," ","f","l","o","w"," ","p","o","s","i","t","i","v","e">>,
    <<"E","B","I","T","D","A">>,
    <<"c","a","s","h"," ","f","l","o","w">>,
    <<"S","D","E">>,
    <<"s","e","l","l","e","r"," ","d","i","s","c","r","e","t","i","o","n","a","r","y">> >>
keywords_negative == <<
    <<"o","w","n","e","r","-","o","p","e","r","a","t","o","r"," ","r","e","q","u","i","r","e","d">>,
    <<"f","u","l","l","-","t","i","m","e"," ","o","w","n","e","r">>,
    <<"h","a","n","d","s","-","o","n"," ","r","e","q","u","i","r","e","d">> >>

\* ------------------------------------------------------------------------
\* DealFinder._parse_price / DealFinder._is_in_price_range
\* ------------------------------------------------------------------------
\* int(float(text) * k) inside the try block: ValueError is caught (falls
\* through to `return None`), OverflowError is not.
ScaledInt(text, k) ==
    LET x == PyFloat(text)
    IN IF x.kind = "invalid" THEN None
       ELSE LET r == DoubleToInt(IF k = 1 THEN x ELSE DoubleTimes(x, k))
            IN IF r = Raised("ValueError") THEN None ELSE r

_parse_price(price_str) ==
    IF price_str = NoStr \/ price_str = << >> THEN None
    ELSE LET s == Strip(RemoveChar(RemoveChar(StrUpper(price_str), ","), "$"))
         IN IF HasChar(s, "M") THEN ScaledInt(Strip(RemoveChar(s, "M")), 1000000)
            ELSE IF HasChar(s, "K") THEN ScaledInt(Strip(RemoveChar(s, "K")), 1000)
            ELSE LET num == KeepChars(s, Digits \cup {"."})
                 IN IF num # << >> THEN ScaledInt(num, 1) ELSE None

\* _is_in_price_range with the upper bound excluded
_is_in_price_range_exclusive(price_str) ==
    LET price == _parse_price(price_str)
    IN IF price.tag = "raise" THEN price
       ELSE IF price = None THEN BoolVal(TRUE)
       ELSE BoolVal(min_price <= price.val /\ price.val < max_price)

\* Returns a bool, or raises what _parse_price raised.
_is_in_price_range(price_str) ==
    LET price == _parse_price(price_str)
    IN IF price.tag = "raise" THEN price
       ELSE IF price = None THEN BoolVal(TRUE)
       ELSE BoolVal(min_price <= price.val /\ price.val <= max_price)

\* ------------------------------------------------------------------------
\* Deal (dataclass)
\* ------------------------------------------------------------------------
\* None in a field whose values are kept as whole TLA+ strings (url, source,
\* the annotation texts), which the code never inspects by character.
NoneAtom == "<None>"

Deal(title, source, asking_price, revenue, cash_flow, location, description, url) ==
    [ title |-> title, source |-> source, asking_price |-> asking_price,
      revenue |-> revenue, cash_flow |-> cash_flow, location |-> location,
      description |-> description, url |-> url,
      ebitda |-> NoStr, owner_involvement |-> NoneAtom, sba_eligible |-> NoneAtom,
      score |-> 0, recommendation |-> NoStr, fit_score |-> NoStr,
      criteria_tags |-> << >>, key_details |-> NoStr, next_step |-> NoStr,
      tier |-> 0 ]

\* `x or ''`
OrEmpty(s) == IF s = NoStr THEN << >> ELSE s

\* ------------------------------------------------------------------------
\* DealFinder._score_deal
\* ------------------------------------------------------------------------
OwnerLow  == "Low (absentee mentioned)"
OwnerHigh == "High (owner-operator mentioned)"
SbaLikely == "Likely (SBA mentioned)"

\* f"{deal.title} {deal.description or ''} {deal.location or ''}".lower()
DealText(deal) ==
    StrLower(deal.title \o <<" ">> \o OrEmpty(deal.description)
                        \o <<" ">> \o OrEmpty(deal.location))

RECURSIVE LocationScanNoBreak(_, _)
\* the locations loop without its break: every location that occurs adds 20
LocationScanNoBreak(i, text) ==
    IF i > Len(locations) THEN 0
    ELSE (IF Contains(text, StrLower(locations[i])) THEN 20 ELSE 0)
         + LocationScanNoBreak(i + 1, text)

RECURSIVE LocationScan(_, _)
\* for loc in locations: if loc.lower() in text: score += 20; break
LocationScan(i, text) ==
    IF i > Len(locations) THEN 0
    ELSE IF Contains(text, StrLower(locations[i])) THEN 20
         ELSE LocationScan(i + 1, text)

RECURSIVE PositiveScan(_, _, _)
\* the keywords_positive loop; st carries score and the two annotations
PositiveScan(i, text, st) ==
    IF i > Len(keywords_positive) THEN st
    ELSE LET kw == StrLower(keywords_positive[i])
         IN IF Contains(text, kw)
            THEN PositiveScan(i + 1, text,
                   [ score |-> st.score + 10,
                     owner_involvement |->
                        IF Contains(kw, <<"a","b","s","e","n","t","e","e">>)
                        THEN OwnerLow ELSE st.owner_involvement,
                     sba_eligible |->
                        IF Contains(kw, <<"s","b","a">>)
                        THEN SbaLikely ELSE st.sba_eligible ])
            ELSE PositiveScan(i + 1, text, st)

RECURSIVE NegativeScanKeepOwner(_, _, _)
\* the keywords_negative loop without the owner_involvement assignment
NegativeScanKeepOwner(i, text, st) ==
    IF i > Len(keywords_negative) THEN st
    ELSE IF Contains(text, StrLower(keywords_negative[i]))
         THEN NegativeScanKeepOwner(i + 1, text, [st EXCEPT !.score = @ - 15])
         ELSE NegativeScanKeepOwner(i + 1, text, st)

RECURSIVE NegativeScan(_, _, _)
\* the keywords_negative loop
NegativeScan(i, text, st) ==
    IF i > Len(keywords_negative) THEN st
    ELSE IF Contains(text, StrLower(keywords_negative[i]))
         THEN NegativeScan(i + 1, text,
                [st EXCEPT !.score = @ - 15, !.owner_involvement = OwnerHigh])
         ELSE NegativeScan(i + 1, text, st)

RECURSIVE IndustryScan(_, _)
\* the industries loop: the points it adds
IndustryScan(i, text) ==
    IF i > Len(industries) THEN 0
    ELSE (IF Contains(text, StrLower(industries[i])) THEN 5 ELSE 0)
         + IndustryScan(i + 1, text)

\* _score_deal that starts from deal.score instead of 0
_score_deal_accumulating(deal) ==
    LET text == DealText(deal)
        s0   == [ score |-> deal.score + LocationScan(1, text),
                  owner_involvement |-> deal.owner_involvement,
                  sba_eligible |-> deal.sba_eligible ]
        s1   == PositiveScan(1, text, s0)
        s2   == NegativeScan(1, text, s1)
    IN [ ret  |-> s2.score + IndustryScan(1, text),
         deal |-> [deal EXCEPT !.owner_involvement = s2.owner_involvement,
                               !.sba_eligible = s2.sba_eligible] ]

\* Returns the score (ret) and the deal as the call leaves it (deal): the
\* call writes owner_involvement and sba_eligible, never score.
_score_deal(deal) ==
    LET text == DealText(deal)
        s0   == [ score |-> LocationScan(1, text),
                  owner_involvement |-> deal.owner_involvement,
                  sba_eligible |-> deal.sba_eligible ]
        s1   == PositiveScan(1, text, s0)
        s2   == NegativeScan(1, text, s1)
    IN [ ret  |-> s2.score + IndustryScan(1, text),
         deal |-> [deal EXCEPT !.owner_involvement = s2.owner_involvement,
                               !.sba_eligible = s2.sba_eligible] ]

\* ------------------------------------------------------------------------
\* DealFinder._analyze_deal_with_claude: the parse of the rater's response
\* ------------------------------------------------------------------------
\* str.startswith(prefix)
StartsWith(s, prefix) ==
    Len(s) >= Len(prefix) /\ SubSeq(s, 1, Len(prefix)) = prefix

RECURSIVE SplitOn(_, _)
\* str.split(c) for a one-character separator c
SplitOn(s, c) ==
    IF ~HasChar(s, c) THEN << s >>
    ELSE LET p == CHOOSE q \in 1..Len(s) : s[q] = c /\ \A j \in 1..(q - 1) : s[j] # c
         IN << SubSeq(s, 1, p - 1) >> \o SplitOn(SubSeq(s, p + 1, Len(s)), c)

\* line.split(":", 1)[1].strip() for a line that holds a colon
AfterColon(line) ==
    LET p == CHOOSE q \in 1..Len(line) : line[q] = ":" /\ \A j \in 1..(q - 1) : line[j] # ":"
    IN Strip(SubSeq(line, p + 1, Len(line)))

\* the fallback of the except clause is 3
ParseTierFallback3(value) ==
    IF value = << >> THEN 3
    ELSE IF value[1] \in Digits THEN DigitVal(value[1])
    ELSE 3

\* int(value[0]) with `except (ValueError, IndexError): deal.tier = 2`
ParseTier(value) ==
    IF value = << >> THEN 2
    ELSE IF value[1] \in Digits THEN DigitVal(value[1])
    ELSE 2

\* the pass without its last branch: an item without prefix appends nothing
ParseTagPrefixedOnly(tag_text) ==
    LET tag == Strip(tag_text)
    IN IF StartsWith(tag, << "+" >>) THEN << [label |-> Strip(Tail(tag)), type |-> "hit"] >>
       ELSE IF StartsWith(tag, << "-" >>) THEN << [label |-> Strip(Tail(tag)), type |-> "miss"] >>
       ELSE IF StartsWith(tag, << "?" >>) THEN << [label |-> Strip(Tail(tag)), type |-> "maybe"] >>
       ELSE << >>

\* one pass of `for tag in tags_str.split(",")`: what the tag appends
ParseTag(tag_text) ==
    LET tag == Strip(tag_text)
    IN IF StartsWith(tag, << "+" >>) THEN << [label |-> Strip(Tail(tag)), type |-> "hit"] >>
       ELSE IF StartsWith(tag, << "-" >>) THEN << [label |-> Strip(Tail(tag)), type |-> "miss"] >>
       ELSE IF StartsWith(tag, << "?" >>) THEN << [label |-> Strip(Tail(tag)), type |-> "maybe"] >>
       ELSE IF tag # << >> THEN << [label |-> tag, type |-> "maybe"] >>
       ELSE << >>

RECURSIVE ParseTagList(_, _)
ParseTagList(pieces, n) ==
    IF n > Len(pieces) THEN << >>
    ELSE ParseTag(pieces[n]) \o ParseTagList(pieces, n + 1)

\* deal.criteria_tags after a CRITERIA_TAGS: line
ParseTags(tags_str) == ParseTagList(SplitOn(tags_str, ","), 1)

FIT_SCORE      == <<"F","I","T","_","S","C","O","R","E",":">>
TIER           == <<"T","I","E","R",":">>
RECOMMENDATION == <<"R","E","C","O","M","M","E","N","D","A","T","I","O","N",":">>
CRITERIA_TAGS  == <<"C","R","I","T","E","R","I","A","_","T","A","G","S",":">>
KEY_DETAILS    == <<"K","E","Y","_","D","E","T","A","I","L","S",":">>
NEXT_STEP      == <<"N","E","X","T","_","S","T","E","P",":">>

\* the body of `for line in analysis.split("\n")`
ParseLine(deal, raw_line) ==
    LET line == Strip(raw_line)
    IN IF StartsWith(line, FIT_SCORE) THEN [deal EXCEPT !.fit_score = AfterColon(line)]
       ELSE IF StartsWith(line, TIER) THEN [deal EXCEPT !.tier = ParseTier(AfterColon(line))]
       ELSE IF StartsWith(line, RECOMMENDATION) THEN [deal EXCEPT !.recommendation = AfterColon(line)]
       ELSE IF StartsWith(line, CRITERIA_TAGS) THEN [deal EXCEPT !.criteria_tags = ParseTags(AfterColon(line))]
       ELSE IF StartsWith(line, KEY_DETAILS) THEN [deal EXCEPT !.key_details = AfterColon(line)]
       ELSE IF StartsWith(line, NEXT_STEP) THEN [deal EXCEPT !.next_step = AfterColon(line)]
       ELSE deal

RECURSIVE ParseLines(_, _, _)
ParseLines(deal, lines, n) ==
    IF n > Len(lines) THEN deal
    ELSE ParseLines(ParseLine(deal, lines[n]), lines, n + 1)

\* the parse of response.content[0].text
ParseResponse(deal, analysis) == ParseLines(deal, SplitOn(analysis, "\n"), 1)

\* what the rater call gave: a response text, or an exception (no API key,
\* network error, empty content)
Reply(analysis) == [tag |-> "text", text |-> analysis]

AnalysisFailed == <<"I","n","v","e","s","t","i","g","a","t","e"," ","-"," ","A","I"," ","a","n","a","l","y","s","i","s"," ","f","a","i","l","e","d">>

\* the branch without `deal.tier = 2`
FailedAnnotationKeepsTier(deal) ==
    [deal EXCEPT !.recommendation = AnalysisFailed, !.fit_score = << "?" >>]

\* the `except Exception` branch
FailedAnnotation(deal) ==
    [deal EXCEPT !.recommendation = AnalysisFailed, !.fit_score = << "?" >>, !.tier = 2]

\* the function without its first `if`
_analyze_deal_with_claude_ungated(deal, available, enabled, reply) ==
    IF reply.tag = "raise" THEN FailedAnnotation(deal)
    ELSE ParseResponse(deal, reply.text)

\* _analyze_deal_with_claude(deal) when ANTHROPIC_AVAILABLE is `available`,
\* config["anthropic"]["enabled"] is `enabled`, and the rater call gives
\* `reply`; returns the deal as the call leaves it.
_analyze_deal_with_claude(deal, available, enabled, reply) ==
    IF ~available \/ ~enabled THEN deal
    ELSE IF reply.tag = "raise" THEN FailedAnnotation(deal)
    ELSE ParseResponse(deal, reply.text)


\* ------------------------------------------------------------------------
\* DealFinder._build_deal_table_html
\* ------------------------------------------------------------------------
\* [d for d in self.deals if d.tier == 1] and [... if d.tier == 2]
TierBucket(ds, n) == SelectSeq(ds, LAMBDA d : d.tier = n)

\* tier 3 listings first, then the tier 0 listings
Tier3BucketSeparated(ds) ==
    SelectSeq(ds, LAMBDA d : d.tier = 3) \o SelectSeq(ds, LAMBDA d : d.tier = 0)

\* [d for d in self.deals if d.tier == 3 or d.tier == 0]
Tier3Bucket(ds) == SelectSeq(ds, LAMBDA d : d.tier = 3 \/ d.tier = 0)

\* <tr class="section-header"> of tier n
SectionHeader(n) == [kind |-> "section-header", tier |-> n]

\* `x or default` on an Optional[str]
OrElse(s, default) == IF s = NoStr \/ s = << >> THEN default ELSE s

\* the class of the <span> when an absent grade is shown like a grade that
\* starts with neither letter
_make_fit_class_absent_low(score) ==
    IF score = NoStr \/ score = << >> THEN "fit-low"
    ELSE IF StartsWith(score, << "A" >>) THEN "fit-high"
    ELSE IF StartsWith(score, << "B" >>) THEN "fit-med"
    ELSE "fit-low"

\* _make_fit_class(score): the class of the grade badge
_make_fit_class(score) ==
    IF score = NoStr \/ score = << >> THEN "fit-med"
    ELSE IF StartsWith(score, << "A" >>) THEN "fit-high"
    ELSE IF StartsWith(score, << "B" >>) THEN "fit-med"
    ELSE "fit-low"

\* _make_tag(tag): the class and the text of the <span> of one criteria tag
_make_tag(tag) ==
    [ class |-> IF tag.type = "hit" THEN "tag-hit"
                ELSE IF tag.type = "miss" THEN "tag-miss"
                ELSE "tag-maybe",
      text  |-> tag.label ]

\* _make_location_tag(loc): the class and the text of the location <span>
_make_location_tag(loc) ==
    IF loc = NoStr \/ loc = << >>
        THEN [ class |-> "tag-maybe", text |-> <<"U","n","k","n","o","w","n">> ]
    ELSE LET loc_upper == StrUpper(loc)
         IN IF Contains(loc_upper, <<"C","A">>)
                   \/ Contains(loc_upper, <<"C","A","L","I","F","O","R","N","I","A">>)
                THEN [ class |-> "tag-ca", text |-> loc ]
            ELSE IF Contains(loc_upper, <<"K","Y">>)
                   \/ Contains(loc_upper, <<"K","E","N","T","U","C","K","Y">>)
                THEN [ class |-> "tag-ca", text |-> loc ]
            ELSE [ class |-> "tag-notca", text |-> loc ]

\* DealFinder._SOURCE_URLS
_SOURCE_URLS ==
    ("DealStream" :> "https://dealstream.com/california/health-care-businesses-for-sale") @@
    ("Synergy Business Brokers" :> "https://synergybb.com/businesses-for-sale/mental-healthcare-facilities-for-sale/") @@
    ("American Healthcare Capital" :> "https://americanhealthcarecapital.com/current-listings/") @@
    ("Transition Consultants" :> "https://www.transitionconsultants.com/practices-for-sale") @@
    ("BizBuySell" :> "https://www.bizbuysell.com/california/health-care-and-fitness-businesses-for-sale/") @@
    ("LoopNet" :> "https://www.loopnet.com/search/businesses-for-sale/california/for-sale/?sk=healthcare") @@
    ("BusinessesForSale" :> "https://www.businessesforsale.com/us/search/healthcare-businesses-for-sale-in-california")

\* _source_link(source_name): the href and the text of the <a>
_source_link(source_name) ==
    [ href |-> IF source_name \in DOMAIN _SOURCE_URLS THEN _SOURCE_URLS[source_name] ELSE "#",
      text |-> source_name ]

NA           == <<"N","/","A">>
QuestionMark == << "?" >>
NoAnalysis   == <<"N","o"," ","a","n","a","l","y","s","i","s"," ","a","v","a","i","l","a","b","l","e">>

\* s[:n]
Prefix(s, n) == SubSeq(s, 1, IF Len(s) < n THEN Len(s) ELSE n)

\* the <tr> of one listing: its running index, the listing it shows (deal),
\* and the text of its cells.  deal.ebitda_margin keeps its default None (no
\* code assigns it), so the second line of the cash-flow cell is empty.
_deal_row(idx, deal) ==
    [ kind          |-> "row",
      idx           |-> idx,
      deal          |-> deal,
      href          |-> deal.url,
      title         |-> deal.title,
      description   |-> Prefix(OrEmpty(deal.description), 200),
      location      |-> _make_location_tag(deal.location),
      revenue       |-> OrElse(deal.revenue, NA),
      cash_flow     |-> OrElse(deal.cash_flow, OrElse(deal.ebitda, NA)),
      ebitda_margin |-> << >>,
      asking_price  |-> OrElse(deal.asking_price, NA),
      fit_class     |-> _make_fit_class(deal.fit_score),
      fit_score     |-> OrElse(deal.fit_score, QuestionMark),
      tags_html     |-> [k \in 1..Len(deal.criteria_tags) |-> _make_tag(deal.criteria_tags[k])],
      notes         |-> OrElse(deal.key_details, OrElse(deal.recommendation, NoAnalysis)),
      source        |-> _source_link(deal.source),
      next_step     |-> OrEmpty(deal.next_step) ]

\* `if tierN:` header, then one row per listing with idx counting on
Section(bucket, n, idx) ==
    IF bucket = << >> THEN << >>
    ELSE << SectionHeader(n) >> \o
         [k \in 1..Len(bucket) |-> _deal_row(idx + k - 1, bucket[k])]

Pursue      == <<"P","u","r","s","u","e">>
Investigate == <<"I","n","v","e","s","t","i","g","a","t","e">>
Skip        == <<"S","k","i","p">>

\* the substring test without regard to case
HasLiteralAnyCase(deal, literal) ==
    /\ deal.recommendation # NoStr
    /\ deal.recommendation # << >>
    /\ Contains(StrLower(deal.recommendation), StrLower(literal))

\* d.recommendation and literal in d.recommendation
HasLiteral(deal, literal) ==
    /\ deal.recommendation # NoStr
    /\ deal.recommendation # << >>
    /\ Contains(deal.recommendation, literal)

\* len([d for d in self.deals if d.recommendation and literal in d.recommendation])
CountLiteral(ds, literal) == Len(SelectSeq(ds, LAMBDA d : HasLiteral(d, literal)))

\* The fragment the function returns: the rows of <tbody> in order, the
\* four numbers of the summary cards and the set of sources.
_build_deal_table_html(ds) ==
    LET tier1 == TierBucket(ds, 1)
        tier2 == TierBucket(ds, 2)
        tier3 == Tier3Bucket(ds)
    IN [ rows_html   |-> Section(tier1, 1, 1)
                         \o Section(tier2, 2, 1 + Len(tier1))
                         \o Section(tier3, 3, 1 + Len(tier1) + Len(tier2)),
         total       |-> Len(ds),
         pursue      |-> CountLiteral(ds, Pursue),
         investigate |-> CountLiteral(ds, Investigate),
         skip        |-> CountLiteral(ds, Skip),
         sources     |-> {ds[k].source : k \in 1..Len(ds)} ]


\* ------------------------------------------------------------------------
\* DealFinder._save_dated_report and DealFinder._update_archive
\* ------------------------------------------------------------------------
\* config["output"]["reports_dir"]
reports_dir == <<"r","e","p","o","r","t","s">>

\* reports_dir / f"{date_str}.html", relative to the output folder
ReportPath(date_str) == reports_dir \o << "/" >> \o date_str \o <<".","h","t","m","l">>

\* f"reports/{date_str}.html", the "file" of a manifest entry
EntryFile(date_str) == <<"r","e","p","o","r","t","s","/">> \o date_str \o <<".","h","t","m","l">>

\* the code point of a character of a date string
CharOrd(c) == IF c = "-" THEN 45 ELSE 48 + DigitVal(c)

RECURSIVE StrLessFrom(_, _, _)
StrLessFrom(x, y, n) ==
    IF n > Len(y) THEN FALSE
    ELSE IF n > Len(x) THEN TRUE
    ELSE IF x[n] = y[n] THEN StrLessFrom(x, y, n + 1)
    ELSE CharOrd(x[n]) < CharOrd(y[n])
\* x < y on Python strings (code point by code point)
StrLess(x, y) == StrLessFrom(x, y, 1)

\* the dict appended for this run
ArchiveEntry(date_str, ds) ==
    [ date |-> date_str, file |-> EntryFile(date_str),
      deal_count |-> Len(ds), pursue_count |-> CountLiteral(ds, Pursue) ]

RECURSIVE InsertByDateOldestFirst(_, _)
\* the sort without reverse=True
InsertByDateOldestFirst(sorted, e) ==
    IF sorted = << >> THEN << e >>
    ELSE IF StrLess(e.date, Head(sorted).date) THEN << e >> \o sorted
    ELSE << Head(sorted) >> \o InsertByDateOldestFirst(Tail(sorted), e)

RECURSIVE InsertByDate(_, _)
\* e goes behind every entry whose date is not older than its own
InsertByDate(sorted, e) ==
    IF sorted = << >> THEN << e >>
    ELSE IF StrLess(Head(sorted).date, e.date) THEN << e >> \o sorted
    ELSE << Head(sorted) >> \o InsertByDate(Tail(sorted), e)

RECURSIVE SortByDateFrom(_, _, _)
SortByDateFrom(entries, n, sorted) ==
    IF n > Len(entries) THEN sorted
    ELSE SortByDateFrom(entries, n + 1, InsertByDate(sorted, entries[n]))
\* archive.sort(key=lambda e: e["date"], reverse=True): stable, newest first
SortByDate(entries) == SortByDateFrom(entries, 1, << >>)

RECURSIVE PruneLoopKeepFile(_, _, _)
\* the loop without old_path.unlink()
PruneLoopKeepFile(archive, files, limit) ==
    IF Len(archive) > limit
    THEN PruneLoopKeepFile(SubSeq(archive, 1, Len(archive) - 1), files, limit)
    ELSE [archive |-> archive, files |-> files]

RECURSIVE PruneLoop(_, _, _)
\* while len(archive) > max_reports: old = archive.pop(); unlink old["file"]
PruneLoop(archive, files, limit) ==
    IF Len(archive) > limit
    THEN LET old == archive[Len(archive)]
         IN PruneLoop(SubSeq(archive, 1, Len(archive) - 1), files \ {old.file}, limit)
    ELSE [archive |-> archive, files |-> files]

\* archive.json: absent, the list the last json.dump wrote, or a file that
\* json.load cannot read (it raises JSONDecodeError)
NoManifest == [exists |-> FALSE, readable |-> FALSE, entries |-> << >>]
Manifest(entries) == [exists |-> TRUE, readable |-> TRUE, entries |-> entries]
DamagedManifest == [exists |-> TRUE, readable |-> FALSE, entries |-> << >>]

\* _save_dated_report: the files of the output folder after the write
_save_dated_report(date_str, files) == files \cup {ReportPath(date_str)}

\* the function without the removal of the entries of date_str
_update_archive_keep_same_date(date_str, manifest, files, ds, limit) ==
    LET loaded   == IF manifest.exists /\ manifest.readable THEN manifest.entries ELSE << >>
        appended == Append(loaded, ArchiveEntry(date_str, ds))
    IN PruneLoop(SortByDate(appended), files, limit)

\* _update_archive(date_str) with self.deals = ds and max_reports = limit:
\* the archive list it writes and returns, and the files it leaves
_update_archive(date_str, manifest, files, ds, limit) ==
    LET loaded   == IF manifest.exists /\ manifest.readable THEN manifest.entries ELSE << >>
        kept     == SelectSeq(loaded, LAMBDA e : e.date # date_str)
        appended == Append(kept, ArchiveEntry(date_str, ds))
    IN PruneLoop(SortByDate(appended), files, limit)


\* ------------------------------------------------------------------------
\* DealFinder._fetch and the page loop of the source adapters
\* ------------------------------------------------------------------------
\* what self.session.get gives: a response with its status code (or an
\* exception, Raised)
Response(status_code) == [tag |-> "response", status_code |-> status_code]

\* the function without its try/except
_fetch_unguarded(got) == got

\* _fetch(url): what session.get gave (through the proxy when a ScraperAPI
\* key is set, directly otherwise), or None when session.get raised
_fetch(got) == IF got.tag = "raise" THEN None ELSE got

\* bool(resp): None is false, and Response.__bool__ is Response.ok
Truthy(r) == r.tag = "response" /\ ~(400 <= r.status_code /\ r.status_code < 600)

\* `not resp or resp.status_code != 200`
FetchFailed(r) == IF Truthy(r) THEN r.status_code # 200 ELSE TRUE

\* len(urls) of the seven adapters, in the order of Sources
SearchPages == << 2, 7, 2, 3, 1, 2, 2 >>

\* the adapters whose message for a failed fetch reads resp.status_code
\* directly; the others read it with getattr or print nothing
ReadsStatusCode == {3, 4, 5}

\* One pass of `for search_url in urls` of adapter a, up to the listing loop:
\*   "parse"     the page is parsed and the listing loop runs
\*   "continue"  the `if not resp or ...` branch ends the pass
\*   "caught"    that branch's print raised AttributeError on None, and the
\*               `except Exception` of the pass caught it (the clause would
\*               catch an exception that left self._fetch as well)
PageBranch(a, r) ==
    IF r.tag = "raise" THEN "caught"
    ELSE IF ~FetchFailed(r) THEN "parse"
    ELSE IF r = None /\ a \in ReadsStatusCode THEN "caught"
    ELSE "continue"

\* ------------------------------------------------------------------------
\* DealFinder._load_seen_deals / DealFinder._save_seen_deals
\* ------------------------------------------------------------------------
\* seen_deals.json: absent, or the JSON list it holds
NoSeenFile == [exists |-> FALSE, urls |-> << >>]
SeenFile(urls) == [exists |-> TRUE, urls |-> urls]

\* _load_seen_deals(): set(), whatever the file holds
_load_seen_deals(file) == {}

\* the URLs of self.deals are written
_save_seen_deals_urls(ds) == SeenFile([k \in 1..Len(ds) |-> ds[k].url])

\* _save_seen_deals(): json.dump([], f)
_save_seen_deals(ds) == SeenFile(<< >>)

\* a value a call returned
Returned(v) == [tag |-> "ret", val |-> v]

\* ------------------------------------------------------------------------
\* State
\* ------------------------------------------------------------------------
VARIABLES
    pc,          \* position of main(): "search", "dedup", "analyze", "report", "done"
    adapter,     \* index of the source adapter that is running
    page,        \* index in that adapter's urls of the search page it is at
    resp,        \* what self._fetch(search_url) returned for that page
    deals,       \* self.deals
    collected,   \* history: self.deals as the adapters left it
    seen_deals,  \* self.seen_deals
    seen_file,   \* seen_deals.json
    reported,    \* history: URLs that earlier runs of main() left in self.deals
    price_in,   \* argument of the price-parsing run
    price_ret,   \* what _parse_price returned or raised
    range_ret,   \* what _is_in_price_range returned or raised
    sdeal,       \* the Deal of the scoring run
    sret,        \* what _score_deal returned last
    sfirst,      \* history: the Deal as the first _score_deal call left it
    scalls,      \* number of _score_deal calls made on sdeal
    anthropic_available, \* ANTHROPIC_AVAILABLE
    anthropic_enabled,   \* config["anthropic"]["enabled"]
    analyze_i,           \* position of the loop of analyze_all_deals
    replies,             \* history: what the rater gave, one per listing submitted
    unrated,             \* history: self.deals when analyze_all_deals was entered
    report,              \* what _build_deal_table_html returned
    max_reports,         \* config["output"]["max_reports"]
    archive_file,        \* archive.json
    report_files,        \* the files of the output folder under reports/
    run_date,            \* history: date_str of the last generate_html_report
    archive_before,      \* history: archive.json before that call
    files_before,        \* history: the report files before that call
    damages,             \* number of times archive.json was made unreadable
    grade_in,            \* argument of the _make_fit_class run
    fit_class,           \* what _make_fit_class returned
    tag_lines,           \* values of the CRITERIA_TAGS lines of the tag-parsing run
    tags_ret             \* deal.criteria_tags after that parse

vars == << pc, adapter, page, resp, deals, collected, seen_deals, seen_file, reported,
           price_in, price_ret, range_ret, sdeal, sret, sfirst, scalls,
           anthropic_available, anthropic_enabled, analyze_i, replies, unrated, report,
           max_reports, archive_file, report_files, run_date, archive_before, files_before,
           damages, grade_in, fit_class, tag_lines, tags_ret >>

pipelineVars == << pc, adapter, page, resp, deals, collected, seen_deals, seen_file, reported >>
priceVars    == << price_in, price_ret, range_ret >>
scoreVars    == << sdeal, sret, sfirst, scalls >>
raterVars    == << anthropic_available, anthropic_enabled, analyze_i, replies, unrated, report >>
archiveVars  == << max_reports, archive_file, report_files, run_date, archive_before,
                   files_before, damages >>
renderVars   == << grade_in, fit_class, tag_lines, tags_ret >>

Unset == [tag |-> "unset"]

\* ------------------------------------------------------------------------
\* Bounds and input sets
\* ------------------------------------------------------------------------
\* longest enumerated price token
MaxLen == 3
\* most listings the adapters append in one run
MaxDeals == 3
\* most _score_deal calls on one Deal
MaxCalls == 2

\* Listings the sites can serve: what an adapter extracts from one listing
\* fragment (title, description, location, URL, the price token and, where
\* the page states them, the revenue, cash flow and EBITDA tokens), and the
\* adapters (positions in Sources) whose site serves the listing.
RawListings == {
    \* 'View Listing', description None, location None, price None
    [ title |-> <<"V","i","e","w"," ","L","i","s","t","i","n","g">>,
      description |-> NoStr,
      location |-> NoStr,
      asking_price |-> NoStr,
      revenue |-> NoStr,
      cash_flow |-> NoStr,
      ebitda |-> NoStr,
      url |-> "https://example.test/u1",
      sites |-> {1, 2} ],
    \* 'Behavioral Health Clinic - Absentee Owner, CA', description None, location None, price '$2,500,000'
    [ title |-> <<"B","e","h","a","v","i","o","r","a","l"," ","H","e","a","l","t","h"," ","C","l","i","n","i","c"," ","-"," ","A","b","s","e","n","t","e","e"," ","O","w","n","e","r",","," ","C","A">>,
      description |-> NoStr,
      location |-> NoStr,
      asking_price |-> <<"$","2",",","5","0","0",",","0","0","0">>,
      revenue |-> NoStr,
      cash_flow |-> NoStr,
      ebitda |-> NoStr,
      url |-> "https://example.test/u1",
      sites |-> {2, 3} ],
    \* 'Behavioral Health Clinic - Absentee Owner, CA', description None, location None, price '$2,500,000', revenue '$1.2M', EBITDA '$300K'
    [ title |-> <<"B","e","h","a","v","i","o","r","a","l"," ","H","e","a","l","t","h"," ","C","l","i","n","i","c"," ","-"," ","A","b","s","e","n","t","e","e"," ","O","w","n","e","r",","," ","C","A">>,
      description |-> NoStr,
      location |-> NoStr,
      asking_price |-> <<"$","2",",","5","0","0",",","0","0","0">>,
      revenue |-> <<"$","1",".","2","M">>,
      cash_flow |-> NoStr,
      ebitda |-> <<"$","3","0","0","K">>,
      url |-> "https://example.test/u2",
      sites |-> {3, 6} ],
    \* 'Pharmacy Group', description 'Established, hands-on required', location None, price None
    [ title |-> <<"P","h","a","r","m","a","c","y"," ","G","r","o","u","p">>,
      description |-> <<"E","s","t","a","b","l","i","s","h","e","d",","," ","h","a","n","d","s","-","o","n"," ","r","e","q","u","i","r","e","d">>,
      location |-> NoStr,
      asking_price |-> NoStr,
      revenue |-> NoStr,
      cash_flow |-> NoStr,
      ebitda |-> NoStr,
      url |-> "https://example.test/u2",
      sites |-> {4, 6} ],
    \* 'Nursing Agency', description 'No Listings Found', location 'CA/KY', price None
    [ title |-> <<"N","u","r","s","i","n","g"," ","A","g","e","n","c","y">>,
      description |-> <<"N","o"," ","L","i","s","t","i","n","g","s"," ","F","o","u","n","d">>,
      location |-> <<"C","A","/","K","Y">>,
      asking_price |-> NoStr,
      revenue |-> NoStr,
      cash_flow |-> NoStr,
      ebitda |-> NoStr,
      url |-> "https://example.test/u3",
      sites |-> {5} ],
    \* 'Rehab', description None, location 'Kentucky', price '$1.5M'
    [ title |-> <<"R","e","h","a","b">>,
      description |-> NoStr,
      location |-> <<"K","e","n","t","u","c","k","y">>,
      asking_price |-> <<"$","1",".","5","M">>,
      revenue |-> NoStr,
      cash_flow |-> NoStr,
      ebitda |-> NoStr,
      url |-> "https://example.test/u3",
      sites |-> {5, 7} ],
    \* 'Optometry Office', description None, location None, price '$1M', cash flow '$250,000'
    [ title |-> <<"O","p","t","o","m","e","t","r","y"," ","O","f","f","i","c","e">>,
      description |-> NoStr,
      location |-> NoStr,
      asking_price |-> <<"$","1","M">>,
      revenue |-> NoStr,
      cash_flow |-> <<"$","2","5","0",",","0","0","0">>,
      ebitda |-> NoStr,
      url |-> "https://example.test/u3",
      sites |-> {6, 7} ],
    \* 'Dental Practice', description None, location None, price '$8,000,000'
    [ title |-> <<"D","e","n","t","a","l"," ","P","r","a","c","t","i","c","e">>,
      description |-> NoStr,
      location |-> NoStr,
      asking_price |-> <<"$","8",",","0","0","0",",","0","0","0">>,
      revenue |-> NoStr,
      cash_flow |-> NoStr,
      ebitda |-> NoStr,
      url |-> "https://example.test/u1",
      sites |-> {1, 7} ] }

\* source= of the seven adapters, in the order run_all_searches calls them
Sources == << "BizBuySell", "DealStream", "American Healthcare Capital",
              "Synergy Business Brokers", "Transition Consultants",
              "LoopNet", "BusinessesForSale" >>

\* ------------------------------------------------------------------------
\* run_all_searches: the dedup / junk pass and the sort
\* ------------------------------------------------------------------------
junk_titles == {
    <<"a","l","l"," ","m","a","t","c","h","i","n","g"," ","d","e","a","l","s">>,
    <<"b","u","s","i","n","e","s","s","e","s"," ","f","o","r"," ","s","a","l","e">>,
    <<"s","e","a","r","c","h"," ","r","e","s","u","l","t","s">>,
    <<"b","u","s","i","n","e","s","s"," ","f","o","r"," ","s","a","l","e">>,
    <<"v","i","e","w"," ","l","i","s","t","i","n","g">>,
    <<>> }

no_listings_found == <<"n","o"," ","l","i","s","t","i","n","g","s"," ","f","o","u","n","d">>

RECURSIVE DedupLoopMarkFirst(_, _, _, _)
\* the loop with seen_urls.add(deal.url) ahead of the junk tests
DedupLoopMarkFirst(ds, i, seen_urls, unique_deals) ==
    IF i > Len(ds) THEN unique_deals
    ELSE LET deal        == ds[i]
             title_lower == Strip(StrLower(deal.title))
         IN IF deal.url \in seen_urls
                THEN DedupLoopMarkFirst(ds, i + 1, seen_urls, unique_deals)
            ELSE IF title_lower \in junk_titles
                THEN DedupLoopMarkFirst(ds, i + 1, seen_urls \cup {deal.url}, unique_deals)
            ELSE IF Contains(StrLower(OrEmpty(deal.description)), no_listings_found)
                THEN DedupLoopMarkFirst(ds, i + 1, seen_urls \cup {deal.url}, unique_deals)
            ELSE IF Len(deal.title) <= 5
                THEN DedupLoopMarkFirst(ds, i + 1, seen_urls \cup {deal.url}, unique_deals)
            ELSE DedupLoopMarkFirst(ds, i + 1, seen_urls \cup {deal.url}, Append(unique_deals, deal))

RECURSIVE DedupLoopNoSeen(_, _, _, _)
\* the loop without seen_urls.add(deal.url)
DedupLoopNoSeen(ds, i, seen_urls, unique_deals) ==
    IF i > Len(ds) THEN unique_deals
    ELSE LET deal        == ds[i]
             title_lower == Strip(StrLower(deal.title))
         IN IF deal.url \in seen_urls
                THEN DedupLoopNoSeen(ds, i + 1, seen_urls, unique_deals)
            ELSE IF title_lower \in junk_titles
                THEN DedupLoopNoSeen(ds, i + 1, seen_urls, unique_deals)
            ELSE IF Contains(StrLower(OrEmpty(deal.description)), no_listings_found)
                THEN DedupLoopNoSeen(ds, i + 1, seen_urls, unique_deals)
            ELSE IF Len(deal.title) <= 5
                THEN DedupLoopNoSeen(ds, i + 1, seen_urls, unique_deals)
            ELSE DedupLoopNoSeen(ds, i + 1, seen_urls, Append(unique_deals, deal))

RECURSIVE DedupLoopNoLength(_, _, _, _)
\* the loop without the title-length test
DedupLoopNoLength(ds, i, seen_urls, unique_deals) ==
    IF i > Len(ds) THEN unique_deals
    ELSE LET deal        == ds[i]
             title_lower == Strip(StrLower(deal.title))
         IN IF deal.url \in seen_urls
                THEN DedupLoopNoLength(ds, i + 1, seen_urls, unique_deals)
            ELSE IF title_lower \in junk_titles
                THEN DedupLoopNoLength(ds, i + 1, seen_urls, unique_deals)
            ELSE IF Contains(StrLower(OrEmpty(deal.description)), no_listings_found)
                THEN DedupLoopNoLength(ds, i + 1, seen_urls, unique_deals)
            ELSE DedupLoopNoLength(ds, i + 1, seen_urls \cup {deal.url}, Append(unique_deals, deal))

RECURSIVE DedupLoop(_, _, _, _)
\* for deal in self.deals: ... ; returns unique_deals
DedupLoop(ds, i, seen_urls, unique_deals) ==
    IF i > Len(ds) THEN unique_deals
    ELSE LET deal        == ds[i]
             title_lower == Strip(StrLower(deal.title))
         IN IF deal.url \in seen_urls
                THEN DedupLoop(ds, i + 1, seen_urls, unique_deals)
            ELSE IF title_lower \in junk_titles
                THEN DedupLoop(ds, i + 1, seen_urls, unique_deals)
            ELSE IF Contains(StrLower(OrEmpty(deal.description)), no_listings_found)
                THEN DedupLoop(ds, i + 1, seen_urls, unique_deals)
            ELSE IF Len(deal.title) <= 5
                THEN DedupLoop(ds, i + 1, seen_urls, unique_deals)
            ELSE DedupLoop(ds, i + 1, seen_urls \cup {deal.url}, Append(unique_deals, deal))

\* insert d ahead of the elements of equal score: an unstable sort
InsertByScoreBeforeEqual(sorted, d) ==
    LET k == Cardinality({i \in 1..Len(sorted) : sorted[i].score > d.score})
    IN SubSeq(sorted, 1, k) \o <<d>> \o SubSeq(sorted, k + 1, Len(sorted))

\* insert d behind every element whose score is >= d.score
InsertByScore(sorted, d) ==
    LET k == Cardinality({i \in 1..Len(sorted) : sorted[i].score >= d.score})
    IN SubSeq(sorted, 1, k) \o <<d>> \o SubSeq(sorted, k + 1, Len(sorted))

RECURSIVE SortByScore(_)
\* self.deals.sort(key=lambda d: d.score, reverse=True): list.sort is
\* stable, and with reverse=True equal keys still keep their order
SortByScore(ds) ==
    IF ds = << >> THEN << >>
    ELSE InsertByScore(SortByScore(SubSeq(ds, 1, Len(ds) - 1)), ds[Len(ds)])

\* ------------------------------------------------------------------------
\* Inputs of the price-parsing run
\* ------------------------------------------------------------------------
\* characters of the enumerated tokens: digits, the point, both suffix
\* letters in either case, the stripped symbols, a blank and another letter
Alphabet == {"0", "1", ".", "M", "k", "$", ",", " ", "x"}

AllStrings(n) == UNION {[1..m -> Alphabet] : m \in 0..n}

\* tokens of the documented examples and of the range boundaries, and longer
\* tokens than the enumeration reaches
SampleTokens == {
    \* '$1,200,000'
    <<"$","1",",","2","0","0",",","0","0","0">>,
    \* '1.2M'
    <<"1",".","2","M">>,
    \* '500K'
    <<"5","0","0","K">>,
    \* '$4,500,000'
    <<"$","4",",","5","0","0",",","0","0","0">>,
    \* '$900,000'
    <<"$","9","0","0",",","0","0","0">>,
    \* '5M'
    <<"5","M">>,
    \* '$5,000,001'
    <<"$","5",",","0","0","0",",","0","0","1">>,
    \* '999,999'
    <<"9","9","9",",","9","9","9">>,
    \* '1.001K'
    <<"1",".","0","0","1","K">>,
    \* '1.005M'
    <<"1",".","0","0","5","M">>,
    \* 'INFM'
    <<"I","N","F","M">>,
    \* '-infk'
    <<"-","i","n","f","k">>,
    \* 'nanM'
    <<"n","a","n","M">>,
    \* '2.5 Million'
    <<"2",".","5"," ","M","i","l","l","i","o","n">>,
    \* '$2.5m'
    <<"$","2",".","5","m">>,
    \* '1.2.3'
    <<"1",".","2",".","3">> }

PriceTokens == AllStrings(MaxLen) \cup SampleTokens \cup {NoStr}

\* ------------------------------------------------------------------------
\* Inputs of the scoring run
\* ------------------------------------------------------------------------
\* titles
ScoreTitles == {
    \* 'Behavioral Health Clinic - Absentee Owner, CA'
    <<"B","e","h","a","v","i","o","r","a","l"," ","H","e","a","l","t","h"," ","C","l","i","n","i","c"," ","-"," ","A","b","s","e","n","t","e","e"," ","O","w","n","e","r",","," ","C","A">>,
    \* 'Dental Practice'
    <<"D","e","n","t","a","l"," ","P","r","a","c","t","i","c","e">>,
    \* 'Semi-absentee SBA eligible home care'
    <<"S","e","m","i","-","a","b","s","e","n","t","e","e"," ","S","B","A"," ","e","l","i","g","i","b","l","e"," ","h","o","m","e"," ","c","a","r","e">>,
    \* 'Turnkey clinic, owner-operator required'
    <<"T","u","r","n","k","e","y"," ","c","l","i","n","i","c",","," ","o","w","n","e","r","-","o","p","e","r","a","t","o","r"," ","r","e","q","u","i","r","e","d">>,
    \* 'Warehouse'
    <<"W","a","r","e","h","o","u","s","e">>,
    \* 'Absentee, full-time owner, hands-on required'
    <<"A","b","s","e","n","t","e","e",","," ","f","u","l","l","-","t","i","m","e"," ","o","w","n","e","r",","," ","h","a","n","d","s","-","o","n"," ","r","e","q","u","i","r","e","d">> }
\* descriptions
ScoreDescriptions == {
    \* None
    NoStr,
    \* 'Established practice with recurring revenue. EBITDA positive.'
    <<"E","s","t","a","b","l","i","s","h","e","d"," ","p","r","a","c","t","i","c","e"," ","w","i","t","h"," ","r","e","c","u","r","r","i","n","g"," ","r","e","v","e","n","u","e","."," ","E","B","I","T","D","A"," ","p","o","s","i","t","i","v","e",".">>,
    \* 'Remote therapy; manager in place'
    <<"R","e","m","o","t","e"," ","t","h","e","r","a","p","y",";"," ","m","a","n","a","g","e","r"," ","i","n"," ","p","l","a","c","e">>,
    \* 'Full-time owner needed, SBA qualified'
    <<"F","u","l","l","-","t","i","m","e"," ","o","w","n","e","r"," ","n","e","e","d","e","d",","," ","S","B","A"," ","q","u","a","l","i","f","i","e","d">> }
\* locations
ScoreLocations == {
    \* None
    NoStr,
    \* 'Louisville, KY'
    <<"L","o","u","i","s","v","i","l","l","e",","," ","K","Y">>,
    \* 'California'
    <<"C","a","l","i","f","o","r","n","i","a">>,
    \* 'Texas'
    <<"T","e","x","a","s">> }

ScoreDeals ==
    { Deal(t, src, p, NoStr, NoStr, l, d, "https://example.test/u1") :
        t \in ScoreTitles, d \in ScoreDescriptions, l \in ScoreLocations,
        p \in {NoStr, <<"$","1","M">>}, src \in {"LoopNet"} }

\* ------------------------------------------------------------------------
\* Actions
\* ------------------------------------------------------------------------
\* One call of _parse_price.
ParsePriceCall ==
    /\ price_ret = Unset
    /\ price_ret' = _parse_price(price_in)
    /\ UNCHANGED << price_in, range_ret, pipelineVars, scoreVars, raterVars, archiveVars, renderVars >>

\* One call of _is_in_price_range.
PriceRangeCall ==
    /\ range_ret = Unset
    /\ range_ret' = _is_in_price_range(price_in)
    /\ UNCHANGED << price_in, price_ret, pipelineVars, scoreVars, raterVars, archiveVars, renderVars >>

\* deal.score = self._score_deal(deal)
ScoreCall ==
    /\ scalls < MaxCalls
    /\ LET r == _score_deal(sdeal)
           d == [r.deal EXCEPT !.score = r.ret]
       IN /\ sdeal' = d
          /\ sret' = IntVal(r.ret)
          /\ sfirst' = IF scalls = 0 THEN d ELSE sfirst
    /\ scalls' = scalls + 1
    /\ UNCHANGED << pipelineVars, priceVars, raterVars, archiveVars, renderVars >>

\* What an adapter does with one listing fragment once its URL passed the
\* seen-deals test: the price filter, Deal(...) with title[:100], and
\* deal.score = self._score_deal(deal).  Skipped when the price filter
\* rejects the listing, and when _is_in_price_range raises: the adapter's
\* per-listing `except Exception: continue` catches that.
Skipped == [tag |-> "skipped"]

\* the adapter stores the price token without its '$' and ','
ListingDealBarePrice(raw, a) ==
    IF _is_in_price_range(raw.asking_price) # BoolVal(TRUE) THEN Skipped
    ELSE LET deal == [ Deal(Prefix(raw.title, 100), Sources[a],
                            IF raw.asking_price = NoStr THEN NoStr
                            ELSE RemoveChar(RemoveChar(raw.asking_price, "$"), ","),
                            raw.revenue, raw.cash_flow,
                            raw.location, raw.description, raw.url)
                       EXCEPT !.ebitda = raw.ebitda ]
             r    == _score_deal(deal)
         IN [r.deal EXCEPT !.score = r.ret]

\* the adapter without the price filter
ListingDealUnfiltered(raw, a) ==
    LET deal == [ Deal(Prefix(raw.title, 100), Sources[a], raw.asking_price,
                       raw.revenue, raw.cash_flow,
                       raw.location, raw.description, raw.url)
                  EXCEPT !.ebitda = raw.ebitda ]
        r    == _score_deal(deal)
    IN [r.deal EXCEPT !.score = r.ret]

ListingDeal(raw, a) ==
    IF _is_in_price_range(raw.asking_price) # BoolVal(TRUE) THEN Skipped
    ELSE LET deal == [ Deal(Prefix(raw.title, 100), Sources[a], raw.asking_price,
                            raw.revenue, raw.cash_flow,
                            raw.location, raw.description, raw.url)
                       EXCEPT !.ebitda = raw.ebitda ]
             r    == _score_deal(deal)
         IN [r.deal EXCEPT !.score = r.ret]

\* ListingDeal over all listings and adapters, computed once
ListingTable ==
    { [raw |-> raw, adapter |-> a, result |-> ListingDeal(raw, a)] :
        raw \in RawListings, a \in 1..Len(Sources) }

\* what session.get gives for a search page: the page, an error status, or
\* an exception
GetResults == { Response(200), Response(503), Raised("ConnectionError") }

\* resp = self._fetch(search_url) of the pass of the running adapter's page loop
FetchPage(got) ==
    /\ pc = "search"
    /\ page <= SearchPages[adapter]
    /\ resp = Unset
    /\ resp' = _fetch(got)
    /\ UNCHANGED << pc, adapter, page, deals, collected, seen_deals, seen_file, reported,
                    priceVars, scoreVars, raterVars, archiveVars, renderVars >>

\* The pass ends without looking for listings: the fetch failed (`continue`,
\* or the except clause of the pass); the loop goes on to the next page.
PageSkipped ==
    /\ pc = "search"
    /\ resp # Unset
    /\ PageBranch(adapter, resp) \in { "continue", "caught" }
    /\ page' = page + 1
    /\ resp' = Unset
    /\ UNCHANGED << pc, adapter, deals, collected, seen_deals, seen_file, reported,
                    priceVars, scoreVars, raterVars, archiveVars, renderVars >>

\* The running adapter handles one listing fragment of the fetched page and
\* appends its Deal.  The listing loop is that of search_loopnet, which
\* keeps no per-page URL set; for the adapters that keep one (processed_urls,
\* seen_urls_local) the action admits repetitions of a URL that only
\* several pages can give.
SearchListing(raw) ==
    /\ pc = "search"
    /\ resp # Unset
    /\ PageBranch(adapter, resp) = "parse"
    /\ Len(deals) < MaxDeals
    /\ adapter \in raw.sites
    /\ raw.url \notin seen_deals
    /\ \E e \in ListingTable :
          /\ e.raw = raw /\ e.adapter = adapter
          /\ e.result # Skipped
          /\ deals' = Append(deals, e.result)
    /\ UNCHANGED << pc, adapter, page, resp, collected, seen_deals, seen_file, reported,
                    priceVars, scoreVars, raterVars, archiveVars, renderVars >>

\* The listing loop of the fetched page ends; the page loop goes on.
PageDone ==
    /\ pc = "search"
    /\ resp # Unset
    /\ PageBranch(adapter, resp) = "parse"
    /\ page' = page + 1
    /\ resp' = Unset
    /\ UNCHANGED << pc, adapter, deals, collected, seen_deals, seen_file, reported,
                    priceVars, scoreVars, raterVars, archiveVars, renderVars >>

\* The page loop of the running adapter ends and the adapter returns; the
\* next one starts, or the dedup pass does.
AdapterDone ==
    /\ pc = "search"
    /\ page > SearchPages[adapter]
    /\ IF adapter < Len(Sources)
       THEN adapter' = adapter + 1 /\ page' = 1 /\ pc' = pc
       ELSE adapter' = adapter /\ page' = page /\ pc' = "dedup"
    /\ UNCHANGED << resp, deals, collected, seen_deals, seen_file, reported,
                    priceVars, scoreVars, raterVars, archiveVars, renderVars >>

\* run_all_searches after the adapters: dedup and junk filter, sort by
\* score, _save_seen_deals.  main() enters analyze_all_deals with the list
\* this leaves.
DedupSort ==
    /\ pc = "dedup"
    /\ collected' = deals
    /\ deals' = SortByScore(DedupLoop(deals, 1, {}, << >>))
    /\ unrated' = deals'
    /\ seen_file' = _save_seen_deals(deals')
    /\ pc' = "analyze"
    /\ UNCHANGED << adapter, page, resp, seen_deals, reported,
                    anthropic_available, anthropic_enabled, analyze_i, replies, report,
                    priceVars, scoreVars, archiveVars, renderVars >>

\* ------------------------------------------------------------------------
\* Inputs of the rating run and of the archive runs
\* ------------------------------------------------------------------------
\* most listings submitted to the rater in one run
MaxRated == 4
\* largest config["output"]["max_reports"]
MaxReports == 3
\* number of dates a report can be generated on
NumDates == 5

\* URLs of the listings of the rating run
RatedUrls == << "https://example.test/r1", "https://example.test/r2",
                "https://example.test/r3", "https://example.test/r4",
                "https://example.test/r5", "https://example.test/r6",
                "https://example.test/r7", "https://example.test/r8" >>

\* the k-th listing of the rating run, as the LoopNet adapter extracts it
RatedListing(k) ==
    [ title |-> <<"C","l","i","n","i","c"," ">> \o << Uppers[k] >>,
      description |-> NoStr, location |-> NoStr, asking_price |-> NoStr,
      revenue |-> NoStr, cash_flow |-> NoStr, ebitda |-> NoStr,
      url |-> RatedUrls[k], sites |-> {6} ]

\* self.deals as the adapter leaves it when the site serves n listings
FoundDeals(n) == [k \in 1..n |-> ListingDeal(RatedListing(k), 6)]

\* self.deals as run_all_searches leaves it then: the dedup loop and the
\* sort run over the list the adapter left
SearchedDeals(n) ==
    CHOOSE out \in { SortByScore(DedupLoop(found, 1, {}, << >>)) :
                        found \in { FoundDeals(n) } } : TRUE

\* response texts of the rater
\* a complete response: grade A, tier 1, Pursue
\*   'FIT_SCORE: A\nTIER: 1\nRECOMMENDATION: Pursue - strong match\nCRITERIA_TAGS: +CA, -Too expensive, ?EBITDA unknown, Multi-provider,\nKEY_DETAILS: Stable.\nNEXT_STEP: Sign NDA'
Response1 ==
    <<"F","I","T","_","S","C","O","R","E",":"," ","A","\n","T","I","E","R",":"," ","1","\n","R","E","C","O","M","M","E","N","D","A","T","I","O","N",":"," ","P","u","r","s","u","e"," ","-"," ","s","t","r","o","n","g"," ","m","a","t","c","h","\n","C","R","I","T","E","R","I","A","_","T","A","G","S",":"," ","+","C","A",","," ","-","T","o","o"," ","e","x","p","e","n","s","i","v","e",","," ","?","E","B","I","T","D","A"," ","u","n","k","n","o","w","n",","," ","M","u","l","t","i","-","p","r","o","v","i","d","e","r",",","\n","K","E","Y","_","D","E","T","A","I","L","S",":"," ","S","t","a","b","l","e",".","\n","N","E","X","T","_","S","T","E","P",":"," ","S","i","g","n"," ","N","D","A">>
\* tier 2 and a recommendation only; 'pursue' in lower case
\*   '  TIER: 2 if worth watching\nRECOMMENDATION: Investigate - pursue if price drops'
Response2 ==
    <<" "," ","T","I","E","R",":"," ","2"," ","i","f"," ","w","o","r","t","h"," ","w","a","t","c","h","i","n","g","\n","R","E","C","O","M","M","E","N","D","A","T","I","O","N",":"," ","I","n","v","e","s","t","i","g","a","t","e"," ","-"," ","p","u","r","s","u","e"," ","i","f"," ","p","r","i","c","e"," ","d","r","o","p","s">>
\* tier 3; the recommendation names two categories
\*   'FIT_SCORE: C\nTIER: 3\nRECOMMENDATION: Skip - too expensive to Pursue'
Response3 ==
    <<"F","I","T","_","S","C","O","R","E",":"," ","C","\n","T","I","E","R",":"," ","3","\n","R","E","C","O","M","M","E","N","D","A","T","I","O","N",":"," ","S","k","i","p"," ","-"," ","t","o","o"," ","e","x","p","e","n","s","i","v","e"," ","t","o"," ","P","u","r","s","u","e">>
\* the tier value copies the brackets of the prompt; empty recommendation
\*   'TIER: [1]\nRECOMMENDATION:'
Response4 ==
    <<"T","I","E","R",":"," ","[","1","]","\n","R","E","C","O","M","M","E","N","D","A","T","I","O","N",":">>
\* a digit outside 1..3 as tier
\*   'TIER: 5\nRECOMMENDATION: Pursue'
Response5 ==
    <<"T","I","E","R",":"," ","5","\n","R","E","C","O","M","M","E","N","D","A","T","I","O","N",":"," ","P","u","r","s","u","e">>
\* an empty tier value
\*   'FIT_SCORE: B+\nTIER:'
Response6 ==
    <<"F","I","T","_","S","C","O","R","E",":"," ","B","+","\n","T","I","E","R",":">>
\* no label line at all
\*   'Sorry, I cannot rate this.'
Response7 ==
    <<"S","o","r","r","y",","," ","I"," ","c","a","n","n","o","t"," ","r","a","t","e"," ","t","h","i","s",".">>

Responses == { Response1, Response2, Response3, Response4, Response5, Response6, Response7 }

\* what a rater call can give: a response, or an exception
RaterReplies == { Reply(r) : r \in Responses } \cup { Raised("APIError") }

\* what the call gives when the anthropic package could not be imported
NotImportable == Raised("NameError")

\* date_str values: datetime.now().strftime("%Y-%m-%d") on the days of the runs
DateList == << <<"2","0","2","6","-","1","0","-","2","6">>,
              <<"2","0","2","5","-","1","2","-","2","9">>,
              <<"2","0","2","6","-","1","1","-","0","2">>,
              <<"2","0","2","7","-","0","1","-","0","4">>,
              <<"2","0","2","6","-","0","1","-","0","5">>,
              <<"2","0","2","6","-","0","2","-","0","2">>,
              <<"2","0","2","6","-","0","1","-","1","2">> >>
RunDates == { DateList[k] : k \in 1..NumDates }

\* The runs that write the archive, as they reach generate_html_report: one
\* found two listings and rated them (self.deals is `deals`, and was
\* `searched` before the rating), one found no listing at all.
ArchiveRuns ==
    UNION { { [ deals    |-> << _analyze_deal_with_claude(ds[1], TRUE, TRUE, Reply(Response1)),
                               _analyze_deal_with_claude(ds[2], TRUE, TRUE, Reply(Response2)) >>,
                searched |-> ds,
                replies  |-> << Reply(Response1), Reply(Response2) >> ],
              [ deals |-> << >>, searched |-> << >>, replies |-> << >> ] } :
            ds \in { SearchedDeals(2) } }

\* most times archive.json is made unreadable
MaxDamage == 1

\* The listings of the sites of the whole-run specifications: 'View Listing'
\* without price, the behavioral health clinic at $2,500,000, the dental
\* practice at $8,000,000, and the optometry office at $1M.
MainListings ==
    { raw \in RawListings :
        \/ raw.title = <<"V","i","e","w"," ","L","i","s","t","i","n","g">>
        \/ raw.title = <<"D","e","n","t","a","l"," ","P","r","a","c","t","i","c","e">>
        \/ raw.title = <<"O","p","t","o","m","e","t","r","y"," ","O","f","f","i","c","e">>
        \/ raw.title = <<"B","e","h","a","v","i","o","r","a","l"," ","H","e","a","l","t","h"," ","C","l","i","n","i","c"," ","-"," ","A","b","s","e","n","t","e","e"," ","O","w","n","e","r",","," ","C","A">>
              /\ raw.url = "https://example.test/u2" }

\* what the rater gives in the whole-run specifications
MainReplies == { Reply(Response1), Reply(Response3), Raised("APIError") }

\* longest enumerated grade
MaxGrade == 2
\* longest enumerated value of a CRITERIA_TAGS line
MaxTagLen == 3

\* characters of the enumerated grades
GradeAlphabet == { "A", "B", "C", "a", "+", "-", "?" }

RECURSIVE StringsOver(_, _)
\* the strings over a set of characters of length n
StringsOver(chars, n) ==
    IF n = 0 THEN { << >> }
    ELSE { Append(t, c) : t \in StringsOver(chars, n - 1), c \in chars }

\* deal.fit_score values: None and every string over GradeAlphabet of up
\* to MaxGrade characters
Grades == { NoStr } \cup UNION { StringsOver(GradeAlphabet, n) : n \in 0..MaxGrade }

\* characters of the enumerated tag lists
TagAlphabet == { "+", "-", "?", ",", " ", "a" }

\* the tags of the prompt's example, 'Multi-provider' without its prefix,
\* and an empty last item
\*   '+CA, -Too expensive, ?EBITDA unknown, Multi-provider,'
ExampleTags == <<"+","C","A",","," ","-","T","o","o"," ","e","x","p","e","n","s","i","v","e",","," ","?","E","B","I","T","D","A"," ","u","n","k","n","o","w","n",","," ","M","u","l","t","i","-","p","r","o","v","i","d","e","r",",">>

\* values of one CRITERIA_TAGS line
TagValues == { ExampleTags } \cup UNION { StringsOver(TagAlphabet, n) : n \in 0..MaxTagLen }

\* values of an earlier CRITERIA_TAGS line of the same response
EarlierTagValues == { << >>, <<"+","a",",","-","a">> }

\* the CRITERIA_TAGS values of a response: one line, or two
TagLineLists ==
    { << v >> : v \in TagValues } \cup
    { << u, v >> : u \in EarlierTagValues, v \in TagValues }

RECURSIVE TagResponse(_, _)
\* the response text whose lines from the n-th on are 'CRITERIA_TAGS: ' + value
TagResponse(values, n) ==
    IF n > Len(values) THEN << >>
    ELSE CRITERIA_TAGS \o << " " >> \o values[n]
         \o (IF n < Len(values) THEN << "\n" >> ELSE << >>)
         \o TagResponse(values, n + 1)

\* the listing whose response is parsed in the tag-parsing run
TagDeal ==
    Deal(<<"C","l","i","n","i","c">>, "LoopNet", NoStr, NoStr, NoStr, NoStr, NoStr,
         "https://example.test/r1")

\* ------------------------------------------------------------------------
\* Actions of analyze_all_deals, generate_html_report and main
\* ------------------------------------------------------------------------
\* analyze_all_deals, one pass of its loop: the listing at analyze_i is
\* handed to _analyze_deal_with_claude, which changes it in place.
AnalyzeDeal(reply) ==
    /\ pc = "analyze"
    /\ anthropic_enabled
    /\ analyze_i <= Len(deals)
    /\ reply \in (IF anthropic_available THEN RaterReplies ELSE { NotImportable })
    /\ deals' = [deals EXCEPT ![analyze_i] =
                    _analyze_deal_with_claude(deals[analyze_i], anthropic_available,
                                              anthropic_enabled, reply)]
    /\ replies' = Append(replies, reply)
    /\ analyze_i' = analyze_i + 1
    /\ UNCHANGED << pc, adapter, page, resp, collected, seen_deals, seen_file, reported,
                    unrated, anthropic_available, anthropic_enabled, report,
                    priceVars, scoreVars, archiveVars, renderVars >>

\* the function returns whether or not the loop has reached the last listing
AnalyzeDoneEarly ==
    /\ pc = "analyze"
    /\ pc' = "report"
    /\ UNCHANGED << adapter, page, resp, deals, collected, seen_deals, seen_file, reported,
                    raterVars, priceVars, scoreVars, archiveVars, renderVars >>

\* analyze_all_deals returns: at once when the rater is disabled, else
\* after the last listing.
AnalyzeDone ==
    /\ pc = "analyze"
    /\ ~anthropic_enabled \/ analyze_i > Len(deals)
    /\ pc' = "report"
    /\ UNCHANGED << adapter, page, resp, deals, collected, seen_deals, seen_file, reported,
                    raterVars, priceVars, scoreVars, archiveVars, renderVars >>

\* generate_html_report on the day `today`: the table fragment, the dated
\* report file, the archive manifest.
GenerateReport(today) ==
    /\ pc = "report"
    /\ report' = _build_deal_table_html(deals)
    /\ \E saved \in { _save_dated_report(today, report_files) } :
          \E updated \in { _update_archive(today, archive_file, saved, deals, max_reports) } :
              /\ archive_file' = Manifest(updated.archive)
              /\ report_files' = updated.files
    /\ run_date' = today
    /\ archive_before' = archive_file
    /\ files_before' = report_files
    /\ pc' = "done"
    /\ UNCHANGED << adapter, page, resp, deals, collected, seen_deals, seen_file, reported,
                    max_reports, damages,
                    anthropic_available, anthropic_enabled, analyze_i, replies, unrated,
                    priceVars, scoreVars, renderVars >>

\* main() is run, in a new process, and reaches generate_html_report with
\* the listings of one of the ArchiveRuns; the files of the output folder
\* are what the runs before it left.
MainAgain ==
    /\ pc = "done"
    /\ pc' = "report"
    /\ \E run \in ArchiveRuns :
          /\ deals' = run.deals
          /\ collected' = run.searched
          /\ unrated' = run.searched
          /\ replies' = run.replies
          /\ analyze_i' = Len(run.searched) + 1
    /\ adapter' = Len(Sources) /\ page' = SearchPages[Len(Sources)] + 1 /\ resp' = Unset
    /\ seen_deals' = _load_seen_deals(seen_file)
    /\ seen_file' = _save_seen_deals(deals')
    /\ report' = Unset
    /\ run_date' = NoStr
    /\ archive_before' = NoManifest
    /\ files_before' = {}
    /\ UNCHANGED << reported,
                    anthropic_available, anthropic_enabled,
                    max_reports, archive_file, report_files, damages,
                    priceVars, scoreVars, renderVars >>

\* main() is run again from its start, in a new process: DealFinder(CONFIG)
\* builds its state anew (self.deals = [], self.seen_deals =
\* self._load_seen_deals()); the files of the output folder are what the
\* last run left.
NewRun ==
    /\ pc = "done"
    /\ pc' = "search"
    /\ adapter' = 1 /\ page' = 1 /\ resp' = Unset
    /\ deals' = << >> /\ collected' = << >>
    /\ seen_deals' = _load_seen_deals(seen_file)
    /\ reported' = reported \cup { deals[k].url : k \in 1..Len(deals) }
    /\ analyze_i' = 1 /\ replies' = << >> /\ unrated' = << >> /\ report' = Unset
    /\ run_date' = NoStr /\ archive_before' = NoManifest /\ files_before' = {}
    /\ UNCHANGED << seen_file, anthropic_available, anthropic_enabled,
                    max_reports, archive_file, report_files, damages,
                    priceVars, scoreVars, renderVars >>

\* Between two runs archive.json becomes unreadable (a write that was cut
\* short, an edit by hand): json.load of the next run raises JSONDecodeError.
DamageManifest ==
    /\ pc = "report"
    /\ archive_file.exists /\ archive_file.readable
    /\ damages < MaxDamage
    /\ archive_file' = DamagedManifest
    /\ damages' = damages + 1
    /\ UNCHANGED << pipelineVars, raterVars, priceVars, scoreVars, renderVars,
                    max_reports, report_files, run_date, archive_before, files_before >>

\* One call of _make_fit_class.
FitClassCall ==
    /\ fit_class = Unset
    /\ fit_class' = Returned(_make_fit_class(grade_in))
    /\ UNCHANGED << grade_in, tag_lines, tags_ret,
                    pipelineVars, raterVars, priceVars, scoreVars, archiveVars >>

\* One call of _analyze_deal_with_claude whose response holds the
\* CRITERIA_TAGS lines of tag_lines.
ParseTagsCall ==
    /\ tags_ret = Unset
    /\ tag_lines # << >>
    /\ tags_ret' = Returned(_analyze_deal_with_claude(
                                TagDeal, TRUE, TRUE,
                                Reply(TagResponse(tag_lines, 1))).criteria_tags)
    /\ UNCHANGED << grade_in, fit_class, tag_lines,
                    pipelineVars, raterVars, priceVars, scoreVars, archiveVars >>

\* ------------------------------------------------------------------------
\* Specifications
\* ------------------------------------------------------------------------
IdlePipeline ==
    /\ pc = "idle" /\ adapter = 1 /\ page = 1 /\ resp = Unset
    /\ deals = << >> /\ collected = << >>
    /\ seen_deals = {} /\ seen_file = NoSeenFile /\ reported = {}
IdlePrice == price_in = NoStr /\ price_ret = Unset /\ range_ret = Unset
IdleScore == sdeal = Unset /\ sret = Unset /\ sfirst = Unset /\ scalls = MaxCalls
\* ANTHROPIC_AVAILABLE after a successful import, enabled as in CONFIG
IdleRater ==
    /\ anthropic_available = TRUE /\ anthropic_enabled = TRUE /\ analyze_i = 1
    /\ replies = << >> /\ unrated = << >> /\ report = Unset
\* max_reports as in CONFIG, an output folder without manifest and reports
IdleArchive ==
    /\ max_reports = 12 /\ archive_file = NoManifest /\ report_files = {}
    /\ run_date = NoStr /\ archive_before = NoManifest /\ files_before = {}
    /\ damages = 0
IdleRender ==
    /\ grade_in = NoStr /\ fit_class = Unset /\ tag_lines = << >> /\ tags_ret = Unset

\* DealFinder(CONFIG) in an output folder that holds no file yet
StartOfMain ==
    /\ pc = "search" /\ adapter = 1 /\ page = 1 /\ resp = Unset
    /\ deals = << >> /\ collected = << >>
    /\ seen_deals = _load_seen_deals(NoSeenFile) /\ seen_file = NoSeenFile /\ reported = {}

\* main(): DealFinder(CONFIG) then run_all_searches
Init ==
    /\ StartOfMain
    /\ IdlePrice /\ IdleScore /\ IdleRater /\ IdleArchive /\ IdleRender

Next ==
    \/ \E got \in GetResults : FetchPage(got)
    \/ PageSkipped
    \/ \E raw \in RawListings : SearchListing(raw)
    \/ PageDone
    \/ AdapterDone
    \/ DedupSort

Spec == Init /\ [][Next]_vars

\* _parse_price and _is_in_price_range on every token of PriceTokens
InitPrice ==
    /\ IdlePipeline /\ IdleScore /\ IdleRater /\ IdleArchive /\ IdleRender
    /\ price_in \in PriceTokens /\ price_ret = Unset /\ range_ret = Unset

NextPrice == ParsePriceCall \/ PriceRangeCall

SpecPrice == InitPrice /\ [][NextPrice]_vars

\* _score_deal, called repeatedly, on every Deal of ScoreDeals
InitScore ==
    /\ IdlePipeline /\ IdlePrice /\ IdleRater /\ IdleArchive /\ IdleRender
    /\ sdeal \in ScoreDeals /\ sret = Unset /\ sfirst = Unset /\ scalls = 0

NextScore == ScoreCall

SpecScore == InitScore /\ [][NextScore]_vars

\* main() from analyze_all_deals on: run_all_searches left up to MaxRated
\* listings; the package is importable or not, the rater enabled or not
InitRater ==
    /\ pc = "analyze" /\ adapter = Len(Sources)
    /\ page = SearchPages[Len(Sources)] + 1 /\ resp = Unset
    /\ \E n \in 0..MaxRated : deals = SearchedDeals(n) /\ collected = deals /\ unrated = deals
    /\ seen_deals = {} /\ seen_file = _save_seen_deals(deals) /\ reported = {}
    /\ anthropic_available \in BOOLEAN /\ anthropic_enabled \in BOOLEAN
    /\ analyze_i = 1 /\ replies = << >> /\ report = Unset
    /\ IdlePrice /\ IdleScore /\ IdleArchive /\ IdleRender

NextRater ==
    \/ \E reply \in RaterReplies \cup { NotImportable } : AnalyzeDeal(reply)
    \/ AnalyzeDone
    \/ GenerateReport(DateList[1])

SpecRater == InitRater /\ [][NextRater]_vars

\* generate_html_report, run after run on any of the RunDates, into one
\* output folder that starts empty, before the first run; max_reports is
\* what the config holds
InitArchive ==
    /\ pc = "done" /\ adapter = 1 /\ page = 1 /\ resp = Unset
    /\ deals = << >> /\ collected = << >> /\ unrated = << >>
    /\ replies = << >> /\ analyze_i = 1
    /\ seen_deals = {} /\ seen_file = NoSeenFile /\ reported = {}
    /\ anthropic_available = TRUE /\ anthropic_enabled = TRUE
    /\ report = Unset
    /\ max_reports \in 1..MaxReports /\ archive_file = NoManifest /\ report_files = {}
    /\ run_date = NoStr /\ archive_before = NoManifest /\ files_before = {}
    /\ damages = 0
    /\ IdlePrice /\ IdleScore /\ IdleRender

NextArchive ==
    \/ \E today \in RunDates : GenerateReport(today)
    \/ MainAgain

SpecArchive == InitArchive /\ [][NextArchive]_vars

\* the archive runs, with a manifest that can become unreadable between runs
NextDamage ==
    \/ \E today \in RunDates : GenerateReport(today)
    \/ MainAgain
    \/ DamageManifest

SpecDamage == InitArchive /\ [][NextDamage]_vars

\* One whole run of main() on the sites that serve MainListings, from
\* DealFinder(CONFIG) to the end of generate_html_report.
NextMain ==
    \/ \E got \in GetResults : FetchPage(got)
    \/ PageSkipped
    \/ \E raw \in MainListings : SearchListing(raw)
    \/ PageDone
    \/ AdapterDone
    \/ DedupSort
    \/ \E reply \in MainReplies : AnalyzeDeal(reply)
    \/ AnalyzeDone
    \/ GenerateReport(DateList[1])

SpecMain == Init /\ [][NextMain]_vars

\* main(), run after run with the rater disabled in the config, on the
\* sites that serve MainListings
InitRuns ==
    /\ StartOfMain
    /\ anthropic_available = TRUE /\ anthropic_enabled = FALSE /\ analyze_i = 1
    /\ replies = << >> /\ unrated = << >> /\ report = Unset
    /\ IdlePrice /\ IdleScore /\ IdleArchive /\ IdleRender

NextRuns ==
    \/ \E got \in GetResults : FetchPage(got)
    \/ PageSkipped
    \/ \E raw \in MainListings : SearchListing(raw)
    \/ PageDone
    \/ AdapterDone
    \/ DedupSort
    \/ AnalyzeDone
    \/ GenerateReport(DateList[1])
    \/ NewRun

SpecRuns == InitRuns /\ [][NextRuns]_vars

\* _make_fit_class on every grade of Grades
InitBadge ==
    /\ IdlePipeline /\ IdlePrice /\ IdleScore /\ IdleRater /\ IdleArchive
    /\ grade_in \in Grades /\ fit_class = Unset /\ tag_lines = << >> /\ tags_ret = Unset

NextBadge == FitClassCall

SpecBadge == InitBadge /\ [][NextBadge]_vars

\* the parse of every response of TagLineLists
InitTags ==
    /\ IdlePipeline /\ IdlePrice /\ IdleScore /\ IdleRater /\ IdleArchive
    /\ grade_in = NoStr /\ fit_class = Unset /\ tag_lines \in TagLineLists /\ tags_ret = Unset

NextTags == ParseTagsCall

SpecTags == InitTags /\ [][NextTags]_vars

\* ------------------------------------------------------------------------
\* Properties of _parse_price and _is_in_price_range  (SpecPrice)
\* ------------------------------------------------------------------------
\* The token as the contract reads it: without '$' and ',', in upper case,
\* without surrounding blanks.
CleanToken(tok) == Strip(RemoveChar(RemoveChar(StrUpper(tok), ","), "$"))

\* text is a decimal number: digits with at most one point
IsDecimalText(text) ==
    /\ \A i \in 1..Len(text) : text[i] \in Digits \cup {"."}
    /\ Len(SelectSeq(text, LAMBDA c : c = ".")) <= 1
    /\ \E i \in 1..Len(text) : text[i] \in Digits

\* digits of a decimal text and the number of them behind the point
DecimalDigits(text) == DigitsToNat(KeepChars(text, Digits))
DecimalScale(text) ==
    IF HasChar(text, ".")
    THEN Len(text) - (CHOOSE i \in 1..Len(text) : text[i] = ".")
    ELSE 0

\* the number written by a decimal text, times 10^e, is a whole number
WholeTimesPow10(text, e) ==
    \/ DecimalScale(text) <= e
    \/ DecimalDigits(text) % Pow10[DecimalScale(text) - e] = 0

\* that whole number
TimesPow10(text, e) ==
    IF DecimalScale(text) <= e
    THEN DecimalDigits(text) * Pow10[e - DecimalScale(text)]
    ELSE DecimalDigits(text) \div Pow10[DecimalScale(text) - e]

\* the contract for a token that ends in the suffix letter: the number in
\* front of the letter times 10^e
SuffixContract(tok, letter, e, ret) ==
    LET s == CleanToken(tok)
    IN (/\ Len(s) >= 2 /\ s[Len(s)] = letter
        /\ IsDecimalText(SubSeq(s, 1, Len(s) - 1))
        /\ WholeTimesPow10(SubSeq(s, 1, Len(s) - 1), e))
       => ret = IntVal(TimesPow10(SubSeq(s, 1, Len(s) - 1), e))

\* the contract for a token without suffix letter: the integer value of
\* its digits and point
PlainContract(tok, ret) ==
    LET s   == CleanToken(tok)
        num == KeepChars(s, Digits \cup {"."})
    IN (~HasChar(s, "M") /\ ~HasChar(s, "K") /\ IsDecimalText(num))
       => ret = IntVal(DecimalDigits(num) \div Pow10[DecimalScale(num)])

\* C1: _parse_price returns None for an absent or empty token; otherwise,
\* '$' and ',' removed and case ignored, a number followed by M yields the
\* number times 1,000,000, a number followed by K the number times 1,000,
\* and a token without suffix the integer value of its digits and point;
\* "$1,200,000", "1.2M" and "500K" yield 1200000, 1200000 and 500000.
C1_ParsePriceContract ==
    price_ret # Unset =>
        /\ (price_in = NoStr \/ price_in = << >>) => price_ret = None
        /\ price_in # NoStr =>
              /\ SuffixContract(price_in, "M", 6, price_ret)
              /\ SuffixContract(price_in, "K", 3, price_ret)
              /\ PlainContract(price_in, price_ret)
        /\ price_in = <<"$","1",",","2","0","0",",","0","0","0">> => price_ret = IntVal(1200000)
        /\ price_in = <<"1",".","2","M">> => price_ret = IntVal(1200000)
        /\ price_in = <<"5","0","0","K">> => price_ret = IntVal(500000)

\* C2: _parse_price never raises: every call returns an integer or None.
C2_ParsePriceNeverRaises ==
    price_ret # Unset => price_ret.tag \in {"int", "None"}

\* C3: _is_in_price_range(p) is true exactly when _parse_price(p) is None
\* or lies in [min_price, max_price], both bounds included; $4,500,000
\* passes, $900,000 fails, an absent price passes.
C3_PriceRangeInclusive ==
    (price_ret # Unset /\ range_ret # Unset) =>
        /\ range_ret = BoolVal(TRUE) <=>
              \/ price_ret = None
              \/ /\ price_ret.tag = "int"
                 /\ 1000000 <= price_ret.val /\ price_ret.val <= 5000000
        /\ price_in = <<"$","4",",","5","0","0",",","0","0","0">> => range_ret = BoolVal(TRUE)
        /\ price_in = <<"$","9","0","0",",","0","0","0">> => range_ret = BoolVal(FALSE)
        /\ price_in = NoStr => range_ret = BoolVal(TRUE)
        /\ price_in = <<"5","M">> => range_ret = BoolVal(TRUE)
        /\ price_in = <<"1","M">> => range_ret = BoolVal(TRUE)

\* a price on the upper bound was parsed and passed the filter
C3_Witness ==
    /\ price_in = <<"5","M">>
    /\ price_ret = IntVal(5000000)
    /\ range_ret = BoolVal(TRUE)

\* ------------------------------------------------------------------------
\* Properties of _score_deal  (SpecScore)
\* ------------------------------------------------------------------------
\* indices of the entries of a configured table that occur in the text
Matches(tbl, text) == {i \in 1..Len(tbl) : Contains(text, StrLower(tbl[i]))}

\* an "absentee"-family positive keyword occurs in the text
AbsenteeMatched(text) ==
    \E i \in Matches(keywords_positive, text) :
        Contains(StrLower(keywords_positive[i]), <<"a","b","s","e","n","t","e","e">>)

\* C4: the score is 20*L + 10*P - 15*N + 5*I, with L = 1 when at least one
\* configured location occurs in the lowercased title+description+location
\* text (one bonus however many locations occur) and P, N, I the numbers of
\* positive, negative and industry keywords that occur in it.
C4_ScoreFormula ==
    scalls > 0 =>
        LET text == DealText(sdeal)
            L == IF Matches(locations, text) # {} THEN 1 ELSE 0
            P == Cardinality(Matches(keywords_positive, text))
            N == Cardinality(Matches(keywords_negative, text))
            I == Cardinality(Matches(industries, text))
        IN sret = IntVal(20 * L + 10 * P - 15 * N + 5 * I)

\* scored: a text with two locations, several positive keywords, a negative
\* keyword and an industry keyword
C4_Witness ==
    /\ scalls > 0
    /\ Cardinality(Matches(locations, DealText(sdeal))) >= 2
    /\ Cardinality(Matches(keywords_positive, DealText(sdeal))) >= 2
    /\ Matches(keywords_negative, DealText(sdeal)) # {}
    /\ Matches(industries, DealText(sdeal)) # {}

\* C5: after _score_deal, a text with a negative keyword has the "high"
\* owner-involvement annotation whether or not an absentee keyword occurs;
\* "low" is the annotation only when an absentee keyword occurs and no
\* negative keyword does.
C5_NegativeOverridesAbsentee ==
    scalls > 0 =>
        LET text == DealText(sdeal)
        IN /\ Matches(keywords_negative, text) # {}
                => sdeal.owner_involvement = OwnerHigh
           /\ sdeal.owner_involvement = OwnerLow
                => AbsenteeMatched(text) /\ Matches(keywords_negative, text) = {}

\* scored: an absentee keyword and a negative keyword both occur
C5_Witness ==
    /\ scalls > 0
    /\ AbsenteeMatched(DealText(sdeal))
    /\ Matches(keywords_negative, DealText(sdeal)) # {}
    /\ sdeal.owner_involvement = OwnerHigh

\* C6: every further _score_deal call on the same listing returns the score
\* of the first call and leaves the annotations of the first call, and the
\* score is that of a listing with the same title, description and location
\* and no other field set.
C6_ScoreIdempotent ==
    scalls > 0 =>
        /\ sret = IntVal(sfirst.score)
        /\ sdeal = sfirst
        /\ sret = IntVal(_score_deal(Deal(sdeal.title, NoneAtom, NoStr, NoStr, NoStr,
                                          sdeal.location, sdeal.description, NoneAtom)).ret)

\* a listing with a price, scored twice, with both annotations written
C6_Witness ==
    /\ scalls = 2
    /\ sdeal.asking_price # NoStr
    /\ sdeal.owner_involvement # NoneAtom
    /\ sdeal.sba_eligible # NoneAtom
    /\ sdeal.score # 0

\* ------------------------------------------------------------------------
\* Properties of the dedup / junk / sort pass of run_all_searches  (Spec)
\* ------------------------------------------------------------------------
\* run_all_searches has returned
Searched == pc = "analyze"

\* the three junk conditions, as the contract states them
JunkTitle(d) ==
    Strip(StrLower(d.title)) \in
        { <<"a","l","l"," ","m","a","t","c","h","i","n","g"," ","d","e","a","l","s">>,
          <<"b","u","s","i","n","e","s","s","e","s"," ","f","o","r"," ","s","a","l","e">>,
          <<"s","e","a","r","c","h"," ","r","e","s","u","l","t","s">>,
          <<"b","u","s","i","n","e","s","s"," ","f","o","r"," ","s","a","l","e">>,
          <<"v","i","e","w"," ","l","i","s","t","i","n","g">>,
          <<>> }
JunkDescription(d) ==
    d.description # NoStr /\ Contains(StrLower(d.description), <<"n","o"," ","l","i","s","t","i","n","g","s"," ","f","o","u","n","d">>)
ShortTitle(d) == Len(d.title) <= 5
IsJunk(d) == JunkTitle(d) \/ JunkDescription(d) \/ ShortTitle(d)

\* positions of a URL in the collected sequence
Occurrences(url) == {j \in 1..Len(collected) : collected[j].url = url}
FirstOccurrence(url) ==
    CHOOSE j \in Occurrences(url) : \A h \in Occurrences(url) : j <= h
\* positions of the listings of a URL that pass the junk filter
CleanOccurrences(url) == {j \in Occurrences(url) : ~IsJunk(collected[j])}
FirstCleanOccurrence(url) ==
    CHOOSE j \in CleanOccurrences(url) : \A h \in CleanOccurrences(url) : j <= h

\* C7 as stated: of the listings with one URL only the first in input order
\* can survive, whatever the titles and descriptions are.
C7_FirstOccurrenceWins ==
    Searched =>
        \A i \in 1..Len(deals) : deals[i] = collected[FirstOccurrence(deals[i].url)]

\* C7 (amended): of the listings with one URL only the first in input order
\* that passes the junk filter survives; every later listing with that URL
\* is dropped, and so is every earlier one, which is junk.
C7_FirstCleanOccurrenceWins ==
    Searched =>
        /\ \A i \in 1..Len(deals) :
              /\ CleanOccurrences(deals[i].url) # {}
              /\ deals[i] = collected[FirstCleanOccurrence(deals[i].url)]
        /\ \A i, k \in 1..Len(deals) : deals[i].url = deals[k].url => i = k
        /\ \A j \in 1..Len(collected) :
              ~IsJunk(collected[j]) => \E i \in 1..Len(deals) : deals[i].url = collected[j].url

\* a junk listing came first, a clean listing with the same URL came later
\* and survived
C7_Witness ==
    /\ Searched
    /\ \E h, j \in 1..Len(collected) :
          /\ h < j /\ collected[h].url = collected[j].url
          /\ IsJunk(collected[h]) /\ ~IsJunk(collected[j])
          /\ \E i \in 1..Len(deals) : deals[i] = collected[j]

\* C8: after run_all_searches no two listings of self.deals have the same URL.
C8_UniqueUrls ==
    Searched =>
        \A i, k \in 1..Len(deals) : i # k => deals[i].url # deals[k].url

\* two clean listings with one URL were collected and one listing is left
C8_Witness ==
    /\ Searched
    /\ \E h, j \in 1..Len(collected) :
          /\ h # j /\ collected[h].url = collected[j].url
          /\ ~IsJunk(collected[h]) /\ ~IsJunk(collected[j])
          /\ collected[h] # collected[j]
    /\ Len(deals) = 1

\* C9: a listing survives only if its lowercased, trimmed title is no junk
\* title, its description does not contain "no listings found" in any case
\* and its title is longer than 5 characters; a listing that violates one
\* of the three is absent from the output.
C9_JunkFiltered ==
    Searched =>
        /\ \A i \in 1..Len(deals) :
              ~JunkTitle(deals[i]) /\ ~JunkDescription(deals[i]) /\ ~ShortTitle(deals[i])
        /\ \A j \in 1..Len(collected) :
              IsJunk(collected[j]) => \A i \in 1..Len(deals) : deals[i] # collected[j]

\* a listing that is junk by its short title alone was collected and
\* dropped, and a clean listing survived
C9_Witness ==
    /\ Searched
    /\ \E j \in 1..Len(collected) :
          ShortTitle(collected[j]) /\ ~JunkTitle(collected[j]) /\ ~JunkDescription(collected[j])
    /\ Len(deals) = 1

\* the listings that pass dedup and junk filter, in collected order
SurvivorPositions ==
    {j \in 1..Len(collected) :
        ~IsJunk(collected[j]) /\ j = FirstCleanOccurrence(collected[j].url)}
PositionOf(d) == FirstCleanOccurrence(d.url)

\* C10: the output is ordered by score descending, listings of equal score
\* keep the order in which the adapters appended them, and the output is a
\* permutation of the listings that survived dedup and junk filtering.
C10_StableSortByScore ==
    Searched =>
        /\ \A i \in 1..(Len(deals) - 1) : deals[i].score >= deals[i + 1].score
        /\ \A i, k \in 1..Len(deals) :
              (i < k /\ deals[i].score = deals[k].score)
                  => PositionOf(deals[i]) < PositionOf(deals[k])
        /\ Len(deals) = Cardinality(SurvivorPositions)
        /\ {deals[i] : i \in 1..Len(deals)} = {collected[j] : j \in SurvivorPositions}

\* two survivors of equal score are in the output
C10_Witness ==
    /\ Searched
    /\ Len(deals) = 2
    /\ deals[1].score = deals[2].score
    /\ deals[1] # deals[2]

\* ------------------------------------------------------------------------
\* Properties of _build_deal_table_html  (SpecRater)
\* ------------------------------------------------------------------------
Reported == report # Unset

\* the listings of the rendered rows, in rendering order
RenderedRows == SelectSeq(report.rows_html, LAMBDA r : r.kind = "row")

\* the group a tier is rendered in
TierGroup(t) == IF t = 1 THEN 1 ELSE IF t = 2 THEN 2 ELSE 3

\* position in self.deals of the listing with this URL
DealIndex(url) == CHOOSE k \in 1..Len(deals) : deals[k].url = url

\* C11: the rows show all tier-1 listings first, then all tier-2 listings,
\* then the listings of tier 3 or 0 together; inside each of the three
\* groups the rows are in the order the listings have in self.deals, so
\* tier 0 and tier 3 listings are interleaved by input order.
C11_TierOrder ==
    Reported =>
        /\ \A k \in 1..Len(deals) :
              deals[k].tier \in 0..3 =>
                  \E i \in 1..Len(RenderedRows) : RenderedRows[i].deal = deals[k]
        /\ \A i \in 1..Len(RenderedRows) :
              \E k \in 1..Len(deals) : RenderedRows[i].deal = deals[k]
        /\ \A i, j \in 1..Len(RenderedRows) :
              i < j =>
                  LET a == RenderedRows[i].deal
                      b == RenderedRows[j].deal
                  IN /\ TierGroup(a.tier) <= TierGroup(b.tier)
                     /\ TierGroup(a.tier) = TierGroup(b.tier)
                            => DealIndex(a.url) < DealIndex(b.url)

\* a tier-2 listing precedes a tier-1 listing in self.deals, and a tier-0
\* row is rendered above a tier-3 row
C11_Witness ==
    /\ Reported
    /\ \E a, b \in 1..Len(deals) : a < b /\ deals[a].tier = 2 /\ deals[b].tier = 1
    /\ \E i, j \in 1..Len(RenderedRows) :
          i < j /\ RenderedRows[i].deal.tier = 0 /\ RenderedRows[j].deal.tier = 3

\* number of the three buckets a listing falls in
BucketsOf(d) ==
    Cardinality({g \in {1, 2, 3} :
                    \/ g = 1 /\ d.tier = 1
                    \/ g = 2 /\ d.tier = 2
                    \/ g = 3 /\ (d.tier = 3 \/ d.tier = 0)})

\* C12: every listing of self.deals falls in exactly one of the three tier
\* buckets, and the number of rendered rows is the Total Deals count.
C12_OneRowPerListing ==
    Reported =>
        /\ \A k \in 1..Len(deals) : BucketsOf(deals[k]) = 1
        /\ Len(RenderedRows) = report.total

\* ------------------------------------------------------------------------
\* Properties of _analyze_deal_with_claude and analyze_all_deals  (SpecRater)
\* ------------------------------------------------------------------------
\* the rater is called for the listings: package importable, config enabled
RaterActive == anthropic_available /\ anthropic_enabled

\* C13: after a rater response is parsed the listing's tier is one of
\* 0, 1, 2, 3, whatever the TIER: line says.
C13_TierInRange ==
    \A k \in 1..Len(deals) : deals[k].tier \in 0..3

\* the listings the loop of analyze_all_deals has handled
Handled == 1..(analyze_i - 1)

\* the rater call for the k-th listing was made and raised
CallFailed(k) == RaterActive /\ k \in Handled /\ replies[k].tag = "raise"

\* the rater call for the k-th listing was made and gave a response text
CallAnswered(k) == RaterActive /\ k \in Handled /\ replies[k].tag = "text"

\* only a listing handed to an active rater has another tier than before
TierSetByRaterOnly ==
    \A k \in 1..Len(deals) :
        deals[k].tier # unrated[k].tier => RaterActive /\ k \in Handled

\* the rater is disabled (or not importable): every tier is the unscored 0
DisabledLeavesUnscored ==
    ~RaterActive => \A k \in 1..Len(deals) : deals[k].tier = 0

\* C14 as stated: tier is changed only by the rater step, and it is 0
\* whenever the rater is disabled or the rater call for the listing fails.
C14_TierUnscoredOnFailure ==
    /\ TierSetByRaterOnly
    /\ DisabledLeavesUnscored
    /\ \A k \in 1..Len(deals) : CallFailed(k) => deals[k].tier = 0

\* C14 (amended): tier is changed only by the rater step; it is 0 whenever
\* the rater is disabled, and 2 when the rater call for the listing fails.
C14_TierNeutralOnFailure ==
    /\ TierSetByRaterOnly
    /\ DisabledLeavesUnscored
    /\ \A k \in 1..Len(deals) : CallFailed(k) => deals[k].tier = 2

\* the report is written after a run in which one rater call failed and
\* another gave a tier
C14_Witness ==
    /\ pc = "done"
    /\ \E k, h \in 1..Len(deals) :
          /\ CallFailed(k) /\ deals[k].tier = 2
          /\ CallAnswered(h) /\ deals[h].tier = 1

\* C15: a rater call that raises leaves its listing with tier 2, grade "?"
\* and a recommendation that begins with "Investigate"; the loop goes on,
\* so when analyze_all_deals has returned every listing of self.deals was
\* handed to the rater.
C15_FailureIsContained ==
    /\ \A k \in 1..Len(deals) :
          CallFailed(k) =>
              /\ deals[k].tier = 2
              /\ deals[k].fit_score = << "?" >>
              /\ StartsWith(deals[k].recommendation, Investigate)
    /\ (pc \in {"report", "done"} /\ anthropic_enabled) =>
          /\ analyze_i = Len(deals) + 1
          /\ Len(replies) = Len(deals)

\* analyze_all_deals has returned; a call failed and the call for a later
\* listing was answered and parsed
C15_Witness ==
    /\ pc = "report"
    /\ \E k, h \in 1..Len(deals) :
          /\ k < h
          /\ CallFailed(k)
          /\ CallAnswered(h) /\ deals[h].recommendation # NoStr

\* the values that follow the label in the lines of a response that begin
\* with the label, in the order of the lines
LabelValues(text, label) ==
    LET lines   == SplitOn(text, "\n")
        cleaned == [n \in 1..Len(lines) |-> Strip(lines[n])]
        labelled == SelectSeq(cleaned, LAMBDA l : Len(l) >= Len(label)
                                                  /\ SubSeq(l, 1, Len(label)) = label)
    IN [n \in 1..Len(labelled) |-> Strip(SubSeq(labelled[n], Len(label) + 1, Len(labelled[n])))]

\* LabelValues of every response text of the rating run, for the six labels
ResponseLabels ==
    [ r \in Responses |->
        [ label \in {FIT_SCORE, TIER, RECOMMENDATION, CRITERIA_TAGS, KEY_DETAILS, NEXT_STEP}
            |-> LabelValues(r, label) ] ]

\* a tier value int() cannot read: empty, or not beginning with a digit
MalformedTier(value) == value = << >> \/ value[1] \notin Digits

\* C16: a field whose label line is missing from the response keeps its
\* default (fit_score, recommendation, key_details, next_step None, tier 0,
\* no tags); a TIER: line whose value is malformed (empty, or not beginning
\* with a digit) sets tier to 2; every response text is parsed without an
\* exception, the listing staying a listing with the handled fields only
\* changed.
C16_PermissiveParse ==
    \A k \in 1..Len(deals) :
        CallAnswered(k) =>
            LET found == ResponseLabels[replies[k].text]
                tiers == found[TIER]
            IN /\ found[FIT_SCORE] = << >> => deals[k].fit_score = NoStr
               /\ found[RECOMMENDATION] = << >> => deals[k].recommendation = NoStr
               /\ found[KEY_DETAILS] = << >> => deals[k].key_details = NoStr
               /\ found[NEXT_STEP] = << >> => deals[k].next_step = NoStr
               /\ found[CRITERIA_TAGS] = << >> => deals[k].criteria_tags = << >>
               /\ tiers = << >> => deals[k].tier = 0
               /\ (tiers # << >> /\ MalformedTier(tiers[Len(tiers)])) => deals[k].tier = 2
               /\ deals[k] = [unrated[k] EXCEPT
                                 !.fit_score = deals[k].fit_score,
                                 !.recommendation = deals[k].recommendation,
                                 !.key_details = deals[k].key_details,
                                 !.next_step = deals[k].next_step,
                                 !.criteria_tags = deals[k].criteria_tags,
                                 !.tier = deals[k].tier]

\* a response without FIT_SCORE: line and with a bracketed tier was parsed,
\* and so was a response with an empty tier value
C16_Witness ==
    \E k, h \in 1..Len(deals) :
        /\ CallAnswered(k) /\ replies[k].text = Response4
        /\ deals[k].tier = 2 /\ deals[k].fit_score = NoStr
        /\ deals[k].recommendation = << >>
        /\ CallAnswered(h) /\ replies[h].text = Response6
        /\ deals[h].tier = 2 /\ deals[h].recommendation = NoStr

\* ------------------------------------------------------------------------
\* Properties of the summary counts  (SpecRater)
\* ------------------------------------------------------------------------
\* the recommendation is present and the literal occurs in it, letter for
\* letter
Recommends(d, literal) ==
    /\ d.recommendation # NoStr
    /\ \E p \in 1..Len(d.recommendation) :
          /\ p + Len(literal) - 1 <= Len(d.recommendation)
          /\ \A q \in 1..Len(literal) : d.recommendation[p + q - 1] = literal[q]

\* the listings of self.deals that recommend the literal
Recommending(literal) == {k \in 1..Len(deals) : Recommends(deals[k], literal)}

\* C17: the Pursue, Investigate and Skip counts are each the number of
\* listings whose recommendation is present and contains that literal in
\* this very case; a listing without recommendation, or with an empty one,
\* is counted in none.
C17_SummaryCounts ==
    Reported =>
        /\ report.pursue = Cardinality(Recommending(Pursue))
        /\ report.investigate = Cardinality(Recommending(Investigate))
        /\ report.skip = Cardinality(Recommending(Skip))
        /\ \A k \in 1..Len(deals) :
              deals[k].recommendation \in {NoStr, << >>} =>
                  /\ k \notin Recommending(Pursue)
                  /\ k \notin Recommending(Investigate)
                  /\ k \notin Recommending(Skip)

\* each count is positive, one listing has an empty recommendation and
\* one holds "pursue" in lower case only
C17_Witness ==
    /\ Reported
    /\ report.pursue > 0 /\ report.investigate > 0 /\ report.skip > 0
    /\ \E k \in 1..Len(deals) : deals[k].recommendation = << >>
    /\ \E k \in 1..Len(deals) :
          /\ k \notin Recommending(Pursue)
          /\ deals[k].recommendation # NoStr
          /\ Contains(StrLower(deals[k].recommendation), StrLower(Pursue))

\* C18: every listing is counted in at most one of the three categories,
\* so Pursue + Investigate + Skip never exceeds the number of listings.
C18_CategoriesExclusive ==
    Reported =>
        /\ \A k \in 1..Len(deals) :
              Cardinality({lit \in {Pursue, Investigate, Skip} : Recommends(deals[k], lit)}) <= 1
        /\ report.pursue + report.investigate + report.skip <= report.total

\* ------------------------------------------------------------------------
\* Properties of _update_archive  (SpecArchive)
\* ------------------------------------------------------------------------
\* a call of generate_html_report has been made
Archived == run_date # NoStr

\* the entries of a manifest as a set
EntrySet(manifest) == {manifest.entries[k] : k \in 1..Len(manifest.entries)}

\* the dates of a manifest
DatesOf(manifest) == {e.date : e \in EntrySet(manifest)}

\* the last call found max_reports entries and its date was none of theirs
FullAndNew ==
    /\ Archived
    /\ archive_before.exists
    /\ Len(archive_before.entries) = max_reports
    /\ run_date \notin DatesOf(archive_before)


\* the entry of the oldest date among the old entries and the new one
OldestEntry ==
    LET all == EntrySet(archive_before) \cup {ArchiveEntry(run_date, deals)}
    IN CHOOSE e \in all : \A f \in all : f = e \/ StrLess(e.date, f.date)

\* C19: a call of _update_archive that finds max_reports entries and adds
\* an entry of a new date removes exactly one entry, the one of the oldest
\* date, and deletes the report file of that entry; every other entry and
\* every other report file is kept.
C19_PruneOldest ==
    FullAndNew =>
        /\ EntrySet(archive_file) =
              (EntrySet(archive_before) \cup {ArchiveEntry(run_date, deals)}) \ {OldestEntry}
        /\ Len(archive_file.entries) = max_reports
        /\ report_files =
              (files_before \cup {ReportPath(run_date)}) \ {OldestEntry.file}
        /\ OldestEntry.file \in files_before \cup {ReportPath(run_date)}

\* the manifest was full, the date new, and the entry removed was one of
\* the old entries, whose file is gone
C19_Witness ==
    /\ FullAndNew
    /\ max_reports > 1
    /\ OldestEntry \in EntrySet(archive_before)
    /\ OldestEntry.file \in files_before
    /\ OldestEntry.file \notin report_files
    /\ run_date \in DatesOf(archive_file)

\* C20: after every _update_archive the written manifest is sorted by date
\* newest first and holds at most max_reports entries.
C20_SortedAndBounded ==
    archive_file.exists =>
        /\ Len(archive_file.entries) <= max_reports
        /\ \A k \in 1..(Len(archive_file.entries) - 1) :
              ~StrLess(archive_file.entries[k].date, archive_file.entries[k + 1].date)

\* a full manifest of several entries whose newest entry is not the one of
\* the last call
C20_Witness ==
    /\ archive_file.exists
    /\ max_reports > 1
    /\ Len(archive_file.entries) = max_reports
    /\ run_date \in DatesOf(archive_file)
    /\ archive_file.entries[1].date # run_date

\* ------------------------------------------------------------------------
\* Properties of the rendering helpers  (SpecBadge, SpecTags)
\* ------------------------------------------------------------------------
\* the grade is absent: the listing was never scored (None), or the grade is
\* the empty string
AbsentGrade(g) == g = NoStr \/ g = << >>

\* the leading letter of a grade that is present
LeadingLetter(g) == g[1]

\* C26: the class of the grade badge is "fit-high" for every grade that
\* starts with A, "fit-med" for every grade that starts with B and for an
\* absent grade, and "fit-low" for every other grade, the "?" that a failed
\* rater call assigns among them.
C26_BadgeClass ==
    fit_class # Unset =>
        /\ AbsentGrade(grade_in) => fit_class.val = "fit-med"
        /\ ~AbsentGrade(grade_in) =>
              /\ LeadingLetter(grade_in) = "A" => fit_class.val = "fit-high"
              /\ LeadingLetter(grade_in) = "B" => fit_class.val = "fit-med"
              /\ LeadingLetter(grade_in) \notin { "A", "B" } => fit_class.val = "fit-low"
        /\ grade_in = FailedAnnotation(TagDeal).fit_score => fit_class.val = "fit-low"

\* the badge of the grade that a failed rater call assigns was made
C26_Witness ==
    /\ fit_class # Unset
    /\ grade_in = FailedAnnotation(TagDeal).fit_score
    /\ grade_in = << "?" >>
    /\ fit_class.val = "fit-low"

\* the value of the last CRITERIA_TAGS line of the response, trimmed
LastTagLine == Strip(tag_lines[Len(tag_lines)])

\* the position of the k-th comma of s
CommaAt(s, k) ==
    CHOOSE i \in 1..Len(s) :
        s[i] = "," /\ Cardinality({ j \in 1..i : s[j] = "," }) = k

\* the comma-separated items of s, trimmed, in the order of the line
TagItems(s) ==
    LET n      == Cardinality({ j \in 1..Len(s) : s[j] = "," })
        from(k) == IF k = 1 THEN 1 ELSE CommaAt(s, k - 1) + 1
        to(k)   == IF k = n + 1 THEN Len(s) ELSE CommaAt(s, k) - 1
    IN [ k \in 1..(n + 1) |-> Strip(SubSeq(s, from(k), to(k))) ]

\* the items that are not empty
NonEmptyItems(s) == SelectSeq(TagItems(s), LAMBDA item : item # << >>)

\* the tag the claim gives for one non-empty item
TagOfItem(item) ==
    IF item[1] = "+" THEN [ type |-> "hit",   label |-> Strip(Tail(item)) ]
    ELSE IF item[1] = "-" THEN [ type |-> "miss",  label |-> Strip(Tail(item)) ]
    ELSE IF item[1] = "?" THEN [ type |-> "maybe", label |-> Strip(Tail(item)) ]
    ELSE [ type |-> "maybe", label |-> item ]

\* C27: the tag list after the parse holds one tag for each non-empty
\* comma-separated item of the last CRITERIA_TAGS line, in the order of the
\* line: type hit for the prefix '+', miss for '-', maybe for '?' (the label
\* is the rest of the item), and maybe with the whole item as label for an
\* item without prefix; empty items give no tag, and nothing of an earlier
\* CRITERIA_TAGS line remains.
C27_TagsParsed ==
    tags_ret # Unset =>
        LET items == NonEmptyItems(LastTagLine)
        IN /\ Len(tags_ret.val) = Len(items)
           /\ \A k \in 1..Len(items) :
                 /\ tags_ret.val[k].type = TagOfItem(items[k]).type
                 /\ tags_ret.val[k].label = TagOfItem(items[k]).label

\* the line of the example, with one tag of each kind and an empty last
\* item, was parsed after an earlier line that had given two tags
C27_Witness ==
    /\ tags_ret # Unset
    /\ Len(tag_lines) = 2
    /\ NonEmptyItems(Strip(tag_lines[1])) # << >>
    /\ tag_lines[2] = ExampleTags
    /\ Len(TagItems(LastTagLine)) = 5
    /\ tags_ret.val = << [label |-> <<"C","A">>, type |-> "hit"],
                         [label |-> <<"T","o","o"," ","e","x","p","e","n","s","i","v","e">>, type |-> "miss"],
                         [label |-> <<"E","B","I","T","D","A"," ","u","n","k","n","o","w","n">>, type |-> "maybe"],
                         [label |-> <<"M","u","l","t","i","-","p","r","o","v","i","d","e","r">>, type |-> "maybe"] >>

\* ------------------------------------------------------------------------
\* Properties of generate_html_report over runs  (SpecArchive, SpecDamage)
\* ------------------------------------------------------------------------
\* generate_html_report has returned
ReportWritten == pc = "done" /\ Archived

\* the report files the entries of a manifest name
FilesOf(manifest) == { e.file : e \in EntrySet(manifest) }

\* C28 as stated: after generate_html_report, whatever the manifest held
\* before and whatever the date of the run, the manifest has an entry for
\* the date of the run and the dated report file the run wrote is still in
\* the output folder.
C28_OwnReportKept ==
    ReportWritten =>
        /\ run_date \in DatesOf(archive_file)
        /\ ReportPath(run_date) \in report_files

\* C29 as stated: after every run the dated report files of the output
\* folder are exactly the files the manifest entries name, also when the
\* manifest was unreadable at the start of a run.
C29_FilesMatchManifest ==
    ReportWritten => report_files = FilesOf(archive_file)

\* the entry of the date of the last call, before and after it
EntryOf(manifest, date_str) == CHOOSE e \in EntrySet(manifest) : e.date = date_str

\* the last call ran on a date that already had an entry
SameDateRerun == ReportWritten /\ run_date \in DatesOf(archive_before)

\* C30: the manifest never holds two entries of one date; after a run the
\* entry of its date carries the Total and Pursue counts of the report of
\* that run, every entry of another date is as the runs before left it, and
\* a run on a date that already had an entry removes no other entry and no
\* report file.
C30_RerunReplaces ==
    /\ \A i, j \in 1..Len(archive_file.entries) :
          archive_file.entries[i].date = archive_file.entries[j].date => i = j
    /\ ReportWritten =>
          /\ \A e \in EntrySet(archive_file) :
                IF e.date = run_date
                THEN /\ e.deal_count = report.total
                     /\ e.pursue_count = report.pursue
                     /\ e.deal_count = Len(deals)
                ELSE e \in EntrySet(archive_before)
    /\ SameDateRerun =>
          /\ run_date \in DatesOf(archive_file)
          /\ DatesOf(archive_file) = DatesOf(archive_before)
          /\ Len(archive_file.entries) = Len(archive_before.entries)
          /\ report_files = files_before \cup { ReportPath(run_date) }

\* a run on a date whose entry, in a full manifest of several entries, held
\* other counts: the entry now holds the counts of this run
C30_Witness ==
    /\ SameDateRerun
    /\ max_reports > 1
    /\ Len(archive_before.entries) = max_reports
    /\ EntryOf(archive_before, run_date).deal_count # report.total
    /\ EntryOf(archive_before, run_date).pursue_count # report.pursue
    /\ EntryOf(archive_file, run_date).deal_count = report.total
    /\ EntryOf(archive_file, run_date).pursue_count = report.pursue
    /\ archive_file.entries[1].date # run_date

\* ------------------------------------------------------------------------
\* Properties of a whole run of main()  (SpecMain, SpecRuns)
\* ------------------------------------------------------------------------
\* the three listings of the example
BehavioralTitle == <<"B","e","h","a","v","i","o","r","a","l"," ","H","e","a","l","t","h"," ","C","l","i","n","i","c"," ","-"," ","A","b","s","e","n","t","e","e"," ","O","w","n","e","r",","," ","C","A">>
DentalTitle == <<"D","e","n","t","a","l"," ","P","r","a","c","t","i","c","e">>
ViewListingTitle == <<"V","i","e","w"," ","L","i","s","t","i","n","g">>
BehavioralPrice == <<"$","2",",","5","0","0",",","0","0","0">>
DentalPrice == <<"$","8",",","0","0","0",",","0","0","0">>

\* the titles of a sequence of listings
TitlesOf(ds) == { ds[k].title : k \in 1..Len(ds) }

\* run_all_searches has returned in this run
AfterSearch == pc \in { "analyze", "report", "done" }

\* C21: of the listings 'Behavioral Health Clinic - Absentee Owner, CA' at
\* $2,500,000, 'Dental Practice' at $8,000,000 and 'View Listing' without
\* price, the price filter rejects the second, which no adapter ever
\* appends; the third is appended and removed as a junk title; a run whose
\* adapters appended the first and the third alone ends with the first as
\* its only listing, with a score of at least 30.
C21_ExampleRun ==
    /\ _is_in_price_range(DentalPrice) = BoolVal(FALSE)
    /\ DentalTitle \notin TitlesOf(deals)
    /\ AfterSearch =>
          /\ DentalTitle \notin TitlesOf(collected)
          /\ ViewListingTitle \notin TitlesOf(deals)
          /\ TitlesOf(collected) = { BehavioralTitle, ViewListingTitle } =>
                /\ Len(deals) = 1
                /\ deals[1].title = BehavioralTitle
                /\ deals[1].asking_price = BehavioralPrice
                /\ deals[1].score >= 30

\* run_all_searches has returned: the first adapter, whose site serves 'View Listing' and
\* 'Dental Practice', appended 'View Listing' alone, a later one the clinic,
\* and the clinic is the one listing left
C21_Witness ==
    /\ Searched
    /\ \E raw \in MainListings : raw.title = DentalTitle /\ raw.asking_price = DentalPrice /\ 1 \in raw.sites
    /\ \E k \in 1..Len(collected) :
          collected[k].title = ViewListingTitle /\ collected[k].source = Sources[1]
    /\ TitlesOf(collected) = { BehavioralTitle, ViewListingTitle }
    /\ Len(deals) = 1
    /\ deals[1].title = BehavioralTitle
    /\ deals[1].score >= 30

\* the position of main() as a number
Stage(p) ==
    IF p = "search" THEN 1 ELSE IF p = "dedup" THEN 2 ELSE IF p = "analyze" THEN 3
    ELSE IF p = "report" THEN 4 ELSE 5

\* every adapter has run through all its search pages
AdaptersFinished == adapter = Len(Sources) /\ page > SearchPages[adapter]

\* url, title and score of the listings of a sequence, in its order
Identity(ds) == [ k \in 1..Len(ds) |-> << ds[k].url, ds[k].title, ds[k].score >> ]

\* what holds in every state of an ordered run
RunOrderState ==
    /\ Stage(pc) >= 2 => AdaptersFinished
    /\ Stage(pc) <= 2 => replies = << >> /\ analyze_i = 1
    /\ Stage(pc) <= 3 => report = Unset
    /\ Stage(pc) = 5 => report # Unset
    /\ Stage(pc) >= 3 =>
          /\ Len(replies) = analyze_i - 1
          /\ Len(replies) <= Len(unrated)
          /\ Identity(deals) = Identity(unrated)
          /\ \A k \in 1..(Len(unrated) - 1) : unrated[k].score >= unrated[k + 1].score
    /\ Stage(pc) >= 4 /\ anthropic_enabled => Len(replies) = Len(unrated)

\* what every step of an ordered run does
RunOrderStep ==
    /\ Stage(pc') \in { Stage(pc), Stage(pc) + 1 }
    /\ Len(deals') > Len(deals) => pc = "search" /\ pc' = "search"
    /\ replies' # replies =>
          /\ pc = "analyze" /\ pc' = "analyze"
          /\ replies' = Append(replies, replies'[Len(replies')])
          /\ Len(replies') <= Len(unrated)
          /\ \A k \in 1..Len(deals) : k # Len(replies') => deals'[k] = deals[k]
    /\ report' # report => pc = "report" /\ pc' = "done"

\* C22: a run is ordered: the dedup and sort pass starts when every adapter
\* has finished, the first rater call comes after it, the report is
\* rendered after the last rater call; the listings are submitted to the
\* rater one by one in the order the sort left them, each exactly once, and
\* the rating changes neither the order, the number, the identity nor the
\* score of the listings.
C22_RunOrdered == []RunOrderState /\ [][RunOrderStep]_vars

\* the report of a run that left several listings was rendered after each
\* of them was submitted once, one of the calls having failed and another
\* having rated its listing
C22_Witness ==
    /\ pc = "done"
    /\ report # Unset
    /\ Len(deals) >= 2
    /\ Len(replies) = Len(deals)
    /\ \E k \in 1..Len(replies) : replies[k].tag = "raise"
    /\ \E k \in 1..Len(deals) : deals[k].tier # unrated[k].tier /\ replies[k].tag = "text"
    /\ deals # unrated

\* the fetch of the page the running adapter is at has failed: the response
\* is absent, or its status is not 200
FailedFetch == resp # Unset /\ (resp = None \/ (resp.tag = "response" /\ resp.status_code # 200))

\* what holds in every state: _fetch hands no exception to the adapter, and
\* the dedup pass is reached only when every adapter went through all its
\* search pages
FetchContainedState ==
    /\ resp # Unset => resp.tag # "raise"
    /\ pc # "search" => AdaptersFinished
    /\ pc = "search" =>
          /\ adapter \in 1..Len(Sources)
          /\ page \in 1..(SearchPages[adapter] + 1)

\* the step that follows a failed fetch: the page loop of the same adapter
\* goes on to its next page, with the listings that were there before
FetchContainedStep ==
    FailedFetch =>
        /\ pc' = "search"
        /\ adapter' = adapter
        /\ page' = page + 1
        /\ resp' = Unset
        /\ deals' = deals

\* C24: a failed fetch of a search page (an exception that _fetch turned
\* into an absent response, or a status other than 200) adds no listing, is
\* not fetched again, raises nothing, and the adapter goes on with its next
\* page; every adapter runs through all its pages before the dedup pass,
\* whatever fetches failed.
C24_FailedFetchContained == []FetchContainedState /\ [][FetchContainedStep]_vars

\* the fetch of a page raised in an adapter that reads resp.status_code in
\* its message, while pages and adapters remain and listings were appended
\* before
C24_Witness ==
    /\ pc = "search"
    /\ FailedFetch
    /\ resp = None
    /\ adapter \in ReadsStatusCode
    /\ adapter < Len(Sources)
    /\ page < SearchPages[adapter]
    /\ deals # << >>

\* the listing fragment a listing of self.deals was made from
RawOf(d) == CHOOSE raw \in MainListings : raw.url = d.url /\ raw.title = d.title

\* the four price fields of a listing or of a listing fragment
PriceFields(x) == << x.asking_price, x.revenue, x.cash_flow, x.ebitda >>

\* the row of the rendered table that shows the listing with this URL
RowOf(url) == CHOOSE r \in { report.rows_html[k] : k \in 1..Len(report.rows_html) } :
                  r.kind = "row" /\ r.href = url

\* C25: at every moment of a run, and in the rendered report, the
\* asking_price, revenue, cash_flow and ebitda of a listing are the strings
\* the adapter extracted (None where the page stated none); the listing has
\* no other field than those of Deal, so the number _parse_price computed is
\* stored nowhere; the cells of the row show these strings, 'N/A' standing
\* for an absent one.
C25_PriceFieldsKept ==
    /\ \A k \in 1..Len(deals) :
          /\ \E raw \in MainListings : raw.url = deals[k].url /\ raw.title = deals[k].title
          /\ PriceFields(deals[k]) = PriceFields(RawOf(deals[k]))
          /\ DOMAIN deals[k] = DOMAIN TagDeal
    /\ report # Unset =>
          \A k \in 1..Len(deals) :
              deals[k].tier \in 0..3 =>
                  LET row == RowOf(deals[k].url)
                      raw == RawOf(deals[k])
                  IN /\ row.asking_price = (IF raw.asking_price = NoStr THEN NA ELSE raw.asking_price)
                     /\ row.revenue = (IF raw.revenue = NoStr THEN NA ELSE raw.revenue)
                     /\ row.cash_flow = (IF raw.cash_flow # NoStr THEN raw.cash_flow
                                         ELSE IF raw.ebitda # NoStr THEN raw.ebitda ELSE NA)

\* the report shows a rated listing whose price, revenue and EBITDA the page
\* stated, with the strings of the page
C25_Witness ==
    /\ pc = "done"
    /\ report # Unset
    /\ \E k \in 1..Len(deals) :
          /\ deals[k].fit_score # NoStr
          /\ deals[k].tier \in 1..3
          /\ deals[k].asking_price = BehavioralPrice
          /\ deals[k].revenue = <<"$","1",".","2","M">>
          /\ deals[k].ebitda = <<"$","3","0","0","K">>
          /\ RowOf(deals[k].url).asking_price = BehavioralPrice
          /\ RowOf(deals[k].url).cash_flow = <<"$","3","0","0","K">>

\* the URLs of a sequence of listings
UrlsOf(ds) == { ds[k].url : k \in 1..Len(ds) }

====
